---- MODULE Spec2Model ----
(***************************************************************************)
(* A model of the image transform pipeline of tscodex-mcp-images           *)
(* (image-processor.ts): format resolution, the sizing plan of             *)
(* processLocalImage / processAndSaveImage, the circular mask post-step    *)
(* and the watermark placement of addWatermark, applyFilters, cropImage,    *)
(* createPlaceholderImage, createFavicon, extractColors                    *)
(* (color-extraction.ts), and the files each operation writes, in the      *)
(* order it writes them (written).                                         *)
(*                                                                         *)
(* One invocation is one action: the server holds a configuration (chosen  *)
(* in Init), an operation is called once with a request drawn from bounded *)
(* sets, and the state then records the request and what the operation     *)
(* did.  The pipeline keeps no state between invocations, so a finished    *)
(* invocation has no successor.                                            *)
(*                                                                         *)
(* Arithmetic is exact (rationals as numerator/denominator pairs) where    *)
(* the code uses IEEE doubles; JavaScript's Math.round rounds halves up.   *)
(* The raster library (sharp) is modelled by what its resize / extract     *)
(* calls do to the dimensions of the image, as documented for its options  *)
(* fit: 'fill' | 'inside' and withoutEnlargement.                          *)
(***************************************************************************)
EXTENDS Integers, Sequences, FiniteSets, TLC

VARIABLES config, op, req, res, written,
          currentResponse, responseTimeout, timers, connections, inbox,
          invocations, frames, fileSystem, dirs

\* The HTTP transport's closure variables and its environment.
transportVars ==
    <<currentResponse, responseTimeout, timers, connections, inbox>>

\* One tool invocation.
invocationVars == <<op, req, res, written>>

\* Concurrent calls of the pipeline: each call's arguments and return
\* value, the calls' local variables, and the file system.
concurrentVars == <<invocations, frames, fileSystem, dirs>>

vars == <<config, invocationVars, transportVars, concurrentVars>>

\* `undefined` for a string or object valued option.  A numeric option that
\* is absent is 0: every test the code makes on one (`||`, `&&`, `if (x)`)
\* treats 0 and undefined alike, and the tool schemas admit no 0.
None == "undefined"

\* `undefined` where the code passes a dimension to the raster library.
NoDim == -1

\* An aspectRatio option that is not given, and parseAspectRatio's null.
NoRatio == <<>>

(***************************************************************************)
(* Bounds                                                                  *)
(***************************************************************************)
\* Largest side of a small source image.
MaxDim == 3
\* Largest requested width, height or maxWidth.
MaxReq == 2
\* Largest term of a requested aspect ratio a:b.
MaxRatio == 2
\* Largest number of '.'-separated segments of an output path.
MaxSegs == 2
\* Longest watermark text.
MaxText == 3

\* The largest crop coordinate and crop size, in halves of a pixel.
MaxCrop == 5

\* The longest list of favicon sizes a request gives.
MaxSizes == 2

(***************************************************************************)
(* Arithmetic helpers: Math.floor, Math.ceil, Math.round, Math.min/max on  *)
(* the rational n/d (d > 0).                                               *)
(***************************************************************************)
Floor(n, d) == n \div d

Ceil(n, d) == -((-n) \div d)

Round(n, d) == (2 * n + d) \div (2 * d)

Min(a, b) == IF a <= b THEN a ELSE b

Max(a, b) == IF a >= b THEN a ELSE b

(***************************************************************************)
(* Format Resolver: determineFormat                                        *)
(***************************************************************************)
Formats == {"webp", "jpeg", "png", "avif"}

\* The format parameter admitted by the tool schemas, or none.
FormatParams == Formats \cup {"jpg", None}

\* A path is the sequence of its '.'-separated segments, as
\* targetPath.split('.') returns them: <<"photo", "png">> is "photo.png",
\* <<"photo">> has no extension, <<"photo", "">> is "photo.".
PathSegments ==
    {"photo", "png", "PNG", "jpg", "JPEG", "webp", "avif", "gif", "constructor", ""}

TargetPaths == UNION {[1..n -> PathSegments] : n \in 1..MaxSegs}

\* String.prototype.toLowerCase on the segments above.
ToLowerCase(s) ==
    CASE s = "PNG" -> "png"
      [] s = "JPEG" -> "jpeg"
      [] OTHER -> s

\* The own properties of the formatMap object literal.
FormatMapOwn ==
    [e \in {"webp", "jpg", "jpeg", "png", "avif"} |->
        IF e = "jpg" THEN "jpeg" ELSE e]

\* formatMap[key]: a property read on a plain object.  A key that is no own
\* property is looked up on Object.prototype, whose members (constructor) are
\* truthy values that are no format; any other key reads as undefined.
ObjectPrototypeKeys == {"constructor"}

FormatMapGet(key) ==
    IF key \in DOMAIN FormatMapOwn THEN FormatMapOwn[key]
    ELSE IF key \in ObjectPrototypeKeys THEN "Object.prototype." \o key
    ELSE None

\* targetPath.split('.').pop()?.toLowerCase()
PathExt(targetPath) == ToLowerCase(targetPath[Len(targetPath)])

determineFormat(targetPath, formatParam, defaultFormat) ==
    IF formatParam # None
    THEN IF formatParam = "jpg" THEN "jpeg" ELSE formatParam
    ELSE LET hit == FormatMapGet(PathExt(targetPath))
         IN  IF hit # None THEN hit ELSE defaultFormat

(***************************************************************************)
(* parseAspectRatio.  A request's aspectRatio is NoRatio or the pair of    *)
(* numbers aspectRatio.split(':').map(Number) starts with; a part that is  *)
(* empty, missing, not a number or "0" is 0 here: `!width` is true for     *)
(* each of them.                                                           *)
(***************************************************************************)
AspectRatios ==
    {NoRatio} \cup ((0..MaxRatio) \X (0..MaxRatio)) \cup {<<16, 9>>, <<1, 3>>}

ParseError == "Invalid aspect ratio format"

\* Whether parseAspectRatio throws.
ParseThrows(aspectRatio) ==
    /\ aspectRatio # NoRatio
    /\ (aspectRatio[1] = 0 \/ aspectRatio[2] = 0)

\* What it returns otherwise: null, or {width, height} as <<width, height>>.
parseAspectRatio(aspectRatio) == aspectRatio

(***************************************************************************)
(* The raster library.  An image is its dimensions [w, h]; a pipeline is   *)
(* the sequence of calls made on the sharp instance.                       *)
(***************************************************************************)
ResizeCall(w, h, fit, woe) ==
    [call |-> "resize", width |-> w, height |-> h, fit |-> fit,
     withoutEnlargement |-> woe]

ExtractCall(l, t, w, h) ==
    [call |-> "extract", left |-> l, top |-> t, width |-> w, height |-> h]

MaskCall(size) == [call |-> "composite", blend |-> "dest-in", size |-> size]

\* A decoded image, and the failure of a pipeline.
Image(w, h) == [ok |-> TRUE, w |-> w, h |-> h]

NoImage == [ok |-> FALSE, w |-> 0, h |-> 0]

\* resize() rejects a width or height that is given and not a positive
\* integer when it is called, before anything is decoded.
InvalidResize == "Expected positive integer"

ResizeArgsOk(c) ==
    /\ c.width # NoDim => c.width >= 1
    /\ c.height # NoDim => c.height >= 1

\* The dimensions sharp's resize produces from a w x h image.  fit 'fill'
\* scales each axis on its own to the target; fit 'inside' scales both axes
\* by the same factor (the smaller one when both targets are given).
\* withoutEnlargement keeps the shrink factor of an axis at 1 or more, so an
\* axis that would grow keeps its size.  An axis never shrinks to 0.
SharpResize(img, c) ==
    IF c.fit = "fill" /\ c.width # NoDim /\ c.height # NoDim
    THEN Image(IF c.withoutEnlargement /\ c.width > img.w THEN img.w ELSE c.width,
               IF c.withoutEnlargement /\ c.height > img.h THEN img.h ELSE c.height)
    ELSE IF c.height = NoDim
    THEN IF c.withoutEnlargement /\ c.width > img.w THEN img
         ELSE Image(c.width, Max(1, Round(img.h * c.width, img.w)))
    ELSE IF c.width = NoDim
    THEN IF c.withoutEnlargement /\ c.height > img.h THEN img
         ELSE Image(Max(1, Round(img.w * c.height, img.h)), c.height)
    ELSE \* fit 'inside' with both targets: the larger shrink factor wins
         IF img.w * c.height >= img.h * c.width
         THEN IF c.withoutEnlargement /\ c.width > img.w THEN img
              ELSE Image(c.width, Max(1, Round(img.h * c.width, img.w)))
         ELSE IF c.withoutEnlargement /\ c.height > img.h THEN img
              ELSE Image(Max(1, Round(img.w * c.height, img.h)), c.height)

\* extract_area fails ("bad extract area") unless the rectangle is non-empty
\* and inside the image.
ExtractOk(img, c) ==
    /\ c.left >= 0 /\ c.top >= 0 /\ c.width >= 1 /\ c.height >= 1
    /\ c.left + c.width <= img.w
    /\ c.top + c.height <= img.h

PipelineError == "sharp: processing failed"

\* toBuffer(): the calls applied in order to the decoded image; the result
\* is the output image, or NoImage when a call fails.
RECURSIVE RunPipeline(_, _)
RunPipeline(img, calls) ==
    IF calls = <<>> \/ ~img.ok THEN img
    ELSE LET c == Head(calls)
         IN  IF c.call = "extract"
             THEN IF ExtractOk(img, c)
                  THEN RunPipeline(Image(c.width, c.height), Tail(calls))
                  ELSE NoImage
             ELSE IF c.call = "resize"
             THEN RunPipeline(SharpResize(img, c), Tail(calls))
             ELSE \* composite: the mask must not be larger than the image
                  IF c.size <= img.w /\ c.size <= img.h
                  THEN RunPipeline(img, Tail(calls))
                  ELSE NoImage

(***************************************************************************)
(* Geometry Planner: the sizing branch of processLocalImage and            *)
(* processAndSaveImage.                                                    *)
(***************************************************************************)
\* The if / else-if chain that picks the branch.
SizingBranchAspectFirst(exactWidth, exactHeight, targetAspectRatio) ==
    IF targetAspectRatio # NoRatio THEN "aspect"
    ELSE IF exactWidth # 0 /\ exactHeight # 0 THEN "exact"
    ELSE IF exactWidth # 0 THEN "widthOnly"
    ELSE IF exactHeight # 0 THEN "heightOnly"
    ELSE "maxWidth"

SizingBranch(exactWidth, exactHeight, targetAspectRatio) ==
    IF exactWidth # 0 /\ exactHeight # 0 THEN "exact"
    ELSE IF exactWidth # 0 THEN "widthOnly"
    ELSE IF exactHeight # 0 THEN "heightOnly"
    ELSE IF targetAspectRatio # NoRatio THEN "aspect"
    ELSE "maxWidth"

\* The centre crop of the aspect-ratio branch: originalAspectRatio is
\* compared with targetRatio = aw/ah by cross-multiplication.
CropWidthFloor(origW, origH, aw, ah) ==
    IF origW * ah > aw * origH THEN Floor(origH * aw, ah) ELSE origW

CropWidth(origW, origH, aw, ah) ==
    IF origW * ah > aw * origH THEN Round(origH * aw, ah) ELSE origW

CropHeight(origW, origH, aw, ah) ==
    IF origW * ah > aw * origH THEN origH
    ELSE IF origW * ah < aw * origH THEN Round(origW * ah, aw)
    ELSE origH

CropLeft(origW, cropW) == Floor(origW - cropW, 2)

CropTop(origH, cropH) == Floor(origH - cropH, 2)

CropRect(origW, origH, aw, ah) ==
    LET cw == CropWidth(origW, origH, aw, ah)
        ch == CropHeight(origW, origH, aw, ah)
    IN  ExtractCall(CropLeft(origW, cw), CropTop(origH, ch), cw, ch)

\* Math.round(maxWidth / targetRatio)
FinalHeightTimesRatio(maxWidth, aw, ah) == Round(maxWidth * aw, ah)

FinalHeight(maxWidth, aw, ah) == Round(maxWidth * ah, aw)

\* The exact-dimension branch: fit 'fill', enlargement allowed.
ExactCallsInside(exactWidth, exactHeight) ==
    <<ResizeCall(exactWidth, exactHeight, "inside", FALSE)>>

ExactCalls(exactWidth, exactHeight) ==
    <<ResizeCall(exactWidth, exactHeight, "fill", FALSE)>>

\* The calls each branch makes on the sharp instance.
BranchCalls(branch, exactWidth, exactHeight, ratio, maxWidth, origW, origH) ==
    CASE branch = "exact" -> ExactCalls(exactWidth, exactHeight)
      [] branch = "widthOnly" ->
           <<ResizeCall(exactWidth, NoDim, "inside", FALSE)>>
      [] branch = "heightOnly" ->
           <<ResizeCall(NoDim, exactHeight, "inside", FALSE)>>
      [] branch = "aspect" ->
           <<CropRect(origW, origH, ratio[1], ratio[2]),
             ResizeCall(maxWidth, FinalHeight(maxWidth, ratio[1], ratio[2]),
                        "fill", TRUE)>>
      [] OTHER ->
           <<ResizeCall(maxWidth, NoDim, "inside", TRUE)>>

\* options.maxWidth || config.defaultMaxWidth
EffectiveMaxWidthConfigOnly(optMaxWidth, cfg) == cfg.defaultMaxWidth

EffectiveMaxWidth(optMaxWidth, cfg) ==
    IF optMaxWidth # 0 THEN optMaxWidth ELSE cfg.defaultMaxWidth

\* The circular mask post-step on the w x h result of the sizing step:
\* centre crop to the smaller side when not square, exact-fill resize to a
\* square, then the dest-in composite of the circle.
CircleCalls(tmp) ==
    LET size == Min(tmp.w, tmp.h)
        left == Max(0, Floor(tmp.w - size, 2))
        top  == Max(0, Floor(tmp.h - size, 2))
    IN  (IF tmp.w # tmp.h
         THEN <<ExtractCall(left, top, Min(size, tmp.w - left), Min(size, tmp.h - top))>>
         ELSE <<>>)
        \o <<ResizeCall(size, size, "fill", FALSE), MaskCall(size)>>

\* The format switch: one encoder per recognised format.
UnsupportedFormat == "Unsupported format"

Failure(kind, branch, fmt, calls) ==
    [status |-> "error", error |-> kind, branch |-> branch, format |-> fmt,
     calls |-> calls, width |-> 0, height |-> 0]

Success(branch, fmt, calls, out) ==
    [status |-> "ok", error |-> None, branch |-> branch, format |-> fmt,
     calls |-> calls, width |-> out.w, height |-> out.h]

(***************************************************************************)
(* Configuration (config.ts): the fields the pipeline reads.               *)
(***************************************************************************)
Configs ==
    {[defaultFormat |-> "webp", defaultMaxWidth |-> 1920,
      saveMetadata |-> TRUE],
     [defaultFormat |-> "jpeg", defaultMaxWidth |-> 2,
      saveMetadata |-> FALSE]}

(***************************************************************************)
(* processLocalImage and processAndSaveImage                               *)
(***************************************************************************)
\* Decoded sources: every small size, and the 4000 x 2000 photo.
SourceSizes == ((1..MaxDim) \X (1..MaxDim)) \cup {<<4000, 2000>>}

\* Exact width / height / maxWidth options; 0 is "not given".
DimOptions == 0..MaxReq

\* Output path and format parameter of a processing request.
OutputTargets ==
    {[targetPath |-> <<"photo", "jpg">>, format |-> None],
     [targetPath |-> <<"photo">>, format |-> None],
     [targetPath |-> <<"photo", "PNG">>, format |-> "webp"],
     [targetPath |-> <<"photo", "constructor">>, format |-> None]}

ResizeCallsOk(calls) ==
    \A i \in 1..Len(calls) : calls[i].call = "resize" => ResizeArgsOk(calls[i])

\* Circle mode overrides the format and the aspect ratio.
LocalFormatIgnoresCircle(cfg, r) ==
    determineFormat(r.targetPath, r.format, cfg.defaultFormat)

LocalFormat(cfg, r) ==
    IF r.circle THEN "png"
    ELSE determineFormat(r.targetPath, r.format, cfg.defaultFormat)

LocalAspectRatioIgnoresCircle(r) == parseAspectRatio(r.aspectRatio)

LocalAspectRatio(r) ==
    IF r.circle THEN <<1, 1>> ELSE parseAspectRatio(r.aspectRatio)

\* The whole of processLocalImage on a decoded source: the format, the
\* sizing branch, the mask post-step, the encoder switch and the write.
processLocalImage(cfg, src, r) ==
    LET format == LocalFormat(cfg, r)
        ratio == LocalAspectRatio(r)
        maxWidth == EffectiveMaxWidth(r.maxWidth, cfg)
        branch == SizingBranch(r.width, r.height, ratio)
        sizing == BranchCalls(branch, r.width, r.height, ratio, maxWidth,
                              src.w, src.h)
        tmp == RunPipeline(src, sizing)
        calls == IF r.circle THEN sizing \o CircleCalls(tmp) ELSE sizing
        out == RunPipeline(src, calls)
    IN  IF ~r.circle /\ ParseThrows(r.aspectRatio)
        THEN Failure(ParseError, "none", format, <<>>)
        ELSE IF ~ResizeCallsOk(sizing)
        THEN Failure(InvalidResize, branch, format, sizing)
        ELSE IF r.circle /\ ~tmp.ok
        THEN Failure(PipelineError, branch, format, sizing)
        ELSE IF format \notin Formats
        THEN Failure(UnsupportedFormat, branch, format, calls)
        ELSE IF ~out.ok
        THEN Failure(PipelineError, branch, format, calls)
        ELSE Success(branch, format, calls, out)

\* processAndSaveImage: the same plan without circle mode.
processAndSaveImage(cfg, src, r) ==
    LET format == determineFormat(r.targetPath, r.format, cfg.defaultFormat)
        ratio == parseAspectRatio(r.aspectRatio)
        maxWidth == EffectiveMaxWidth(r.maxWidth, cfg)
        branch == SizingBranch(r.width, r.height, ratio)
        calls == BranchCalls(branch, r.width, r.height, ratio, maxWidth,
                             src.w, src.h)
        out == RunPipeline(src, calls)
    IN  IF ParseThrows(r.aspectRatio)
        THEN Failure(ParseError, "none", format, <<>>)
        ELSE IF ~ResizeCallsOk(calls)
        THEN Failure(InvalidResize, branch, format, calls)
        ELSE IF format \notin Formats
        THEN Failure(UnsupportedFormat, branch, format, calls)
        ELSE IF ~out.ok
        THEN Failure(PipelineError, branch, format, calls)
        ELSE Success(branch, format, calls, out)

\* What the file system does to the writes of one invocation: every write
\* succeeds, the write of the primary asset fails, or the write of the
\* sidecar fails.
IoOutcomes == {"ok", "assetFails", "sidecarFails"}

WriteError == "write failed"

\* The files an operation has written: the primary asset at the output
\* path, and the sidecar <outputPath>.json.
Asset == "asset"

Sidecar == "sidecar"

\* await writeFile(fullPath, processedBuffer) of an operation that writes
\* one file once its pipeline has succeeded.
WriteAssetAlways(out) == <<Asset>>

WriteAsset(out) == IF out.status = "ok" THEN <<Asset>> ELSE <<>>

\* if (config.saveMetadata) { await saveMetadataFile(...) }
SaveMetadataAlways(cfg) == TRUE

SaveMetadata(cfg) == cfg.saveMetadata

\* The tail of processAndSaveImage: mkdir and writeFile of the asset, then
\* saveMetadataFile when the configuration asks for it.  out is the result
\* of the pipeline; a rejected write rejects the whole call.
SaveImage(cfg, out, io) ==
    IF out.status # "ok" THEN [res |-> out, written |-> <<>>]
    ELSE IF io = "assetFails"
    THEN [res |-> Failure(WriteError, out.branch, out.format, out.calls),
          written |-> <<>>]
    ELSE IF ~SaveMetadata(cfg)
    THEN [res |-> out, written |-> <<Asset>>]
    ELSE IF io = "sidecarFails"
    THEN [res |-> Failure(WriteError, out.branch, out.format, out.calls),
          written |-> <<Asset>>]
    ELSE [res |-> out, written |-> <<Asset, Sidecar>>]

(***************************************************************************)
(* Watermark Compositor: addWatermark                                      *)
(***************************************************************************)
\* The source image file: <<0, 0>> is a path at which no file exists.
MissingFile == <<0, 0>>

ImageSides == {1, 20, 39, 100, 1000}

ImageFiles == (ImageSides \X ImageSides) \cup {MissingFile}

\* The watermark image file: none given, missing, or its decoded size.
NoWatermarkPath == <<>>

WatermarkFiles ==
    {NoWatermarkPath, MissingFile, <<40, 20>>, <<10, 30>>, <<100, 100>>,
     <<2000, 2000>>}

\* Text watermark: the text's length (0: no text) and the fontSize option.
TextLengths == 0..MaxText

FontSizes == {0, 10}

\* size and sizePercent options of an image watermark.
SizeOptions == {0, 10, 100}

SizePercentOptions == {0, 10, 100}

\* position, and x / y for position 'custom' (NoDim: not given).
Presets ==
    {"center", "top-left", "top-right", "bottom-left", "bottom-right"}

CustomCoords == {NoDim, 5, 2000}

Placements ==
    {[position |-> p, x |-> NoDim, y |-> NoDim] : p \in Presets \cup {None}}
    \cup {[position |-> "custom", x |-> x, y |-> y] :
             x \in CustomCoords, y \in CustomCoords}

\* Text watermark box: fontSize = options.fontSize || min(imgW, imgH) / 20
\* as the rational fsN / fsD; padding = fontSize * 0.5; the box is
\* ceil(length * fontSize * 0.6 + padding * 2) by
\* ceil(fontSize * 1.2 + padding * 2).
TextBox(imgW, imgH, length, fontSize) ==
    LET fsN == IF fontSize # 0 THEN fontSize ELSE Min(imgW, imgH)
        fsD == IF fontSize # 0 THEN 1 ELSE 20
    IN  [w |-> Ceil(fsN * (6 * length + 10), fsD * 10),
         h |-> Ceil(fsN * 22, fsD * 10)]

\* Image watermark target box, for a watermark file ow x oh whose long
\* side gets the target size tN / tD.
ScaledBox(ow, oh, tN, tD) ==
    IF ow >= oh
    THEN [w |-> Round(tN, tD), h |-> Round(tN * oh, tD * ow)]
    ELSE [w |-> Round(tN * ow, tD * oh), h |-> Round(tN, tD)]

\* Math.max(1, Math.min(100, options.sizePercent))
ClampPercent(sizePercent) == Max(1, Min(100, sizePercent))

\* size > sizePercent of min(imgW, imgH) > 20% of min(imgW, imgH).
TargetBoxPercentFirst(imgW, imgH, ow, oh, size, sizePercent) ==
    IF sizePercent # 0
    THEN ScaledBox(ow, oh, Min(imgW, imgH) * ClampPercent(sizePercent), 100)
    ELSE IF size # 0 THEN ScaledBox(ow, oh, size, 1)
    ELSE ScaledBox(ow, oh, Min(imgW, imgH) * 2, 10)

TargetBox(imgW, imgH, ow, oh, size, sizePercent) ==
    IF size # 0 THEN ScaledBox(ow, oh, size, 1)
    ELSE IF sizePercent # 0
    THEN ScaledBox(ow, oh, Min(imgW, imgH) * ClampPercent(sizePercent), 100)
    ELSE ScaledBox(ow, oh, Min(imgW, imgH) * 2, 10)

\* watermarkImage.resize(w, h, { fit: 'inside', withoutEnlargement: true })
WatermarkResize(box) == ResizeCall(box.w, box.h, "inside", TRUE)

\* The position switch, before clamping.  imgW * 0.05 is imgW / 20.
PositionLeftNoMargin(position, x, imgW, wmW) ==
    CASE position \in {"top-left", "bottom-left"} -> 0
      [] position \in {"top-right", "bottom-right"} -> imgW - wmW
      [] position = "custom" -> (IF x = NoDim THEN 0 ELSE x)
      [] OTHER -> Floor(imgW - wmW, 2)

PositionLeft(position, x, imgW, wmW) ==
    CASE position \in {"top-left", "bottom-left"} -> Floor(imgW, 20)
      [] position \in {"top-right", "bottom-right"} ->
           Floor(20 * (imgW - wmW) - imgW, 20)
      [] position = "custom" -> (IF x = NoDim THEN 0 ELSE x)
      [] OTHER -> Floor(imgW - wmW, 2)

PositionTop(position, y, imgH, wmH) ==
    CASE position \in {"top-left", "top-right"} -> Floor(imgH, 20)
      [] position \in {"bottom-left", "bottom-right"} ->
           Floor(20 * (imgH - wmH) - imgH, 20)
      [] position = "custom" -> (IF y = NoDim THEN 0 ELSE y)
      [] OTHER -> Floor(imgH - wmH, 2)

\* Math.max(0, Math.min(v, limit))
ClampNone(v, limit) == v

Clamp(v, limit) == Max(0, Min(v, limit))

MissingSource == "Source image not found"

MissingWatermark == "Watermark image not found"

MissingWatermarkSource == "Either text or watermarkImagePath must be provided"

WmFailure(kind, fmt) ==
    [status |-> "error", error |-> kind, format |-> fmt, kind |-> "none",
     boxW |-> 0, boxH |-> 0, wmW |-> 0, wmH |-> 0, left |-> 0, top |-> 0,
     width |-> 0, height |-> 0]

\* The whole of addWatermark.  r.image is the source file, r.watermark the
\* watermark file, r.textLength the length of options.text.
addWatermark(cfg, r) ==
    LET format == determineFormat(r.outputPath, r.format, cfg.defaultFormat)
        imgW == r.image[1]
        imgH == r.image[2]
        position == IF r.position = None THEN "center" ELSE r.position
        isText == r.textLength # 0
        target == TargetBox(imgW, imgH, r.watermark[1], r.watermark[2],
                            r.size, r.sizePercent)
        wm == IF isText
              THEN TextBox(imgW, imgH, r.textLength, r.fontSize)
              ELSE SharpResize(Image(r.watermark[1], r.watermark[2]),
                               WatermarkResize(target))
        left == Clamp(PositionLeft(position, r.x, imgW, wm.w), imgW - wm.w)
        top == Clamp(PositionTop(position, r.y, imgH, wm.h), imgH - wm.h)
    IN  IF r.image = MissingFile THEN WmFailure(MissingSource, None)
        ELSE IF ~isText /\ r.watermark = NoWatermarkPath
        THEN WmFailure(MissingWatermarkSource, format)
        ELSE IF ~isText /\ r.watermark = MissingFile
        THEN WmFailure(MissingWatermark, format)
        ELSE IF ~isText /\ ~ResizeArgsOk(WatermarkResize(target))
        THEN WmFailure(InvalidResize, format)
        ELSE [status |-> IF wm.w <= imgW /\ wm.h <= imgH /\ format \in Formats
                         THEN "ok" ELSE "error",
              error |-> IF wm.w > imgW \/ wm.h > imgH THEN PipelineError
                        ELSE IF format \notin Formats THEN UnsupportedFormat
                        ELSE None,
              format |-> format,
              kind |-> IF isText THEN "text" ELSE "image",
              boxW |-> IF isText THEN 0 ELSE target.w,
              boxH |-> IF isText THEN 0 ELSE target.h,
              wmW |-> wm.w, wmH |-> wm.h, left |-> left, top |-> top,
              width |-> imgW, height |-> imgH]

(***************************************************************************)
(* Filters: applyFilters                                                   *)
(***************************************************************************)
\* blur and sharpen are sigmas, in tenths (toFixed(1)); 0 is "not given".
SigmaOptions == {-10, 0, 1, 50}

\* brightness, contrast and saturation, -100..100; 0 is "not given".
ToneOptions == {-100, 0, 50}

\* The order in which the caller listed the options in the options object.
OptionOrders ==
    {<<"blur", "sharpen", "grayscale", "sepia", "brightness", "contrast",
       "saturation">>,
     <<"saturation", "contrast", "brightness", "sepia", "grayscale",
       "sharpen", "blur">>}

\* Math.max(0.3, Math.min(1000, sigma)), in tenths.
ClampSigma(sigma) == Max(3, Min(10000, sigma))

\* One call on the sharp instance, and one entry of appliedFilters.
FilterCall(name, a, b) == [call |-> name, a |-> a, b |-> b]

Token(name, value) == [name |-> name, value |-> value]

\* 1 + (brightness / 100) and 1 + (saturation / 100), in hundredths.
BrightnessMultiplierNoBase(brightness) == brightness

BrightnessMultiplier(brightness) == 100 + brightness

SaturationMultiplier(saturation) == 100 + saturation

\* contrastFactor = 1 + (contrast / 100), in hundredths, and
\* intercept = contrast < 0 ? 0.25 * (1 - contrastFactor)
\*                          : -0.5 * (contrastFactor - 1), in 1/400ths.
ContrastFactor(contrast) == 100 + contrast

Intercept(contrast) ==
    IF contrast < 0 THEN 100 - ContrastFactor(contrast)
    ELSE -2 * (ContrastFactor(contrast) - 100)

\* The steps of applyFilters, each giving the calls it makes on the sharp
\* instance and the tokens it pushes.
BlurStep(r) ==
    IF r.blur > 0
    THEN [calls |-> <<FilterCall("blur", ClampSigma(r.blur), 0)>>,
          tokens |-> <<Token("blur", ClampSigma(r.blur))>>]
    ELSE [calls |-> <<>>, tokens |-> <<>>]

SharpenStep(r) ==
    IF r.sharpen > 0
    THEN [calls |-> <<FilterCall("sharpen", ClampSigma(r.sharpen), 0)>>,
          tokens |-> <<Token("sharpen", ClampSigma(r.sharpen))>>]
    ELSE [calls |-> <<>>, tokens |-> <<>>]

GrayscaleStep(r) ==
    IF r.grayscale
    THEN [calls |-> <<FilterCall("greyscale", 0, 0)>>,
          tokens |-> <<Token("grayscale", 0)>>]
    ELSE [calls |-> <<>>, tokens |-> <<>>]

\* Sepia is greyscale() and a brown layer composited 'over'.
SepiaStep(r) ==
    IF r.sepia
    THEN [calls |-> <<FilterCall("greyscale", 0, 0),
                      FilterCall("composite", 0, 0)>>,
          tokens |-> <<Token("sepia", 0)>>]
    ELSE [calls |-> <<>>, tokens |-> <<>>]

ModulateStep(r) ==
    IF r.brightness # 0 \/ r.saturation # 0
    THEN [calls |-> <<FilterCall("modulate",
                                 BrightnessMultiplier(r.brightness),
                                 SaturationMultiplier(r.saturation))>>,
          tokens |->
             (IF r.brightness # 0 THEN <<Token("brightness", r.brightness)>>
              ELSE <<>>)
             \o (IF r.saturation # 0
                 THEN <<Token("saturation", r.saturation)>> ELSE <<>>)]
    ELSE [calls |-> <<>>, tokens |-> <<>>]

LinearStep(r) ==
    IF r.contrast # 0
    THEN [calls |-> <<FilterCall("linear", ContrastFactor(r.contrast),
                                 Intercept(r.contrast))>>,
          tokens |-> <<Token("contrast", r.contrast)>>]
    ELSE [calls |-> <<>>, tokens |-> <<>>]

\* The steps in the order of the function's text.
FilterStepsContrastFirst(r) ==
    <<LinearStep(r), BlurStep(r), SharpenStep(r), GrayscaleStep(r),
      SepiaStep(r), ModulateStep(r)>>

FilterSteps(r) ==
    <<BlurStep(r), SharpenStep(r), GrayscaleStep(r), SepiaStep(r),
      ModulateStep(r), LinearStep(r)>>

RECURSIVE ConcatCalls(_)
ConcatCalls(steps) ==
    IF steps = <<>> THEN <<>>
    ELSE Head(steps).calls \o ConcatCalls(Tail(steps))

RECURSIVE ConcatTokens(_)
ConcatTokens(steps) ==
    IF steps = <<>> THEN <<>>
    ELSE Head(steps).tokens \o ConcatTokens(Tail(steps))

\* The whole of applyFilters.  r.image is the source file.
applyFilters(cfg, r) ==
    LET format == determineFormat(r.outputPath, r.format, cfg.defaultFormat)
        steps == FilterSteps(r)
    IN  IF r.image = MissingFile
        THEN [status |-> "error", error |-> MissingSource, format |-> None,
              calls |-> <<>>, appliedFilters |-> <<>>]
        ELSE IF format \notin Formats
        THEN [status |-> "error", error |-> UnsupportedFormat,
              format |-> format, calls |-> ConcatCalls(steps),
              appliedFilters |-> ConcatTokens(steps)]
        ELSE [status |-> "ok", error |-> None, format |-> format,
              calls |-> ConcatCalls(steps),
              appliedFilters |-> ConcatTokens(steps)]

(***************************************************************************)
(* Crop: cropImage                                                         *)
(***************************************************************************)
\* x, y (>= 0) and width, height (>= 1) of the crop area are numbers; the
\* model counts them in halves of a pixel so that Math.floor has work.
CropOffsets == 0..MaxCrop

CropSizes == 2..MaxCrop

CropSources == {MissingFile} \cup ((1..2) \X (1..2))

\* Math.max(0, Math.floor(v)) and Math.max(1, Math.floor(v)) of v halves.
CropOffsetCeil(halves) == Max(0, Ceil(halves, 2))

CropOffset(halves) == Max(0, Floor(halves, 2))

CropSize(halves) == Max(1, Floor(halves, 2))

ExceedsWidth == "Crop area exceeds image width"

ExceedsHeight == "Crop area exceeds image height"

NoArea == [x |-> 0, y |-> 0, width |-> 0, height |-> 0]

CropFailure(kind, fmt, calls) ==
    [status |-> "error", error |-> kind, format |-> fmt, calls |-> calls,
     cropArea |-> NoArea, width |-> 0, height |-> 0]

\* The whole of cropImage.  r.image is the source file.
cropImage(cfg, r) ==
    LET format == determineFormat(r.outputPath, r.format, cfg.defaultFormat)
        imageWidth == r.image[1]
        imageHeight == r.image[2]
        x == CropOffset(r.x)
        y == CropOffset(r.y)
        width == CropSize(r.width)
        height == CropSize(r.height)
        calls == <<ExtractCall(x, y, width, height)>>
        out == RunPipeline(Image(imageWidth, imageHeight), calls)
    IN  IF r.image = MissingFile THEN CropFailure(MissingSource, None, <<>>)
        ELSE IF x + width > imageWidth
        THEN CropFailure(ExceedsWidth, format, <<>>)
        ELSE IF y + height > imageHeight
        THEN CropFailure(ExceedsHeight, format, <<>>)
        ELSE IF format \notin Formats
        THEN CropFailure(UnsupportedFormat, format, calls)
        ELSE IF ~out.ok
        THEN CropFailure(PipelineError, format, calls)
        ELSE [status |-> "ok", error |-> None, format |-> format,
              calls |-> calls,
              cropArea |-> [x |-> x, y |-> y, width |-> width,
                            height |-> height],
              width |-> out.w, height |-> out.h]

(***************************************************************************)
(* Placeholder: image_create_placeholder and createPlaceholderImage        *)
(***************************************************************************)
PlaceholderSizes == {<<300, 150>>, <<1, 1>>}

\* backgroundColor and textColor options; None is "not given".
ColorOptions == {None, "#ff0000"}

PlaceholderTargets ==
    {[outputPath |-> <<"placeholder", "png">>, format |-> None],
     [outputPath |-> <<"placeholder", "jpg">>, format |-> None],
     [outputPath |-> <<"placeholder">>, format |-> "jpg"]}

\* What the external image collaborator does when useImage is set; "none"
\* when it is not asked.
FetchOutcomes == {"none", "fetched", "failed"}

FetchError == "Failed to download placeholder image from Picsum"

\* format: params.format === 'jpg' ? 'jpeg' : params.format
NormalizeFormat(format) == IF format = "jpg" THEN "jpeg" ELSE format

\* The options object the tool handler builds from its parameters.
PlaceholderOptions(params) ==
    [width |-> params.width, height |-> params.height,
     backgroundColor |-> params.backgroundColor,
     textColor |-> params.textColor,
     format |-> NormalizeFormat(params.format),
     useImage |-> params.useImage, transparent |-> params.transparent]

\* The vector canvas: a rectangle filled with backgroundColor and the
\* label "{width} x {height}" in textColor at font size min(w, h) / 8
\* (kept as the numerator over 8).
Canvas(width, height, backgroundColor, textColor) ==
    [kind |-> "svg", fill |-> backgroundColor, textFill |-> textColor,
     label |-> <<width, height>>, fontSize8 |-> Min(width, height)]

FetchedCanvas(width, height) ==
    [kind |-> "picsum", fill |-> None, textFill |-> None,
     label |-> <<width, height>>, fontSize8 |-> 0]

NoCanvas ==
    [kind |-> "none", fill |-> None, textFill |-> None, label |-> <<0, 0>>,
     fontSize8 |-> 0]

\* The whole of createPlaceholderImage.  The destructuring of options takes
\* width, height, backgroundColor, textColor, format, useImage, imageId,
\* blur and grayscale, and nothing else.
createPlaceholderImage(targetPath, cfg, options, fetch) ==
    LET backgroundColor == IF options.backgroundColor = None THEN "#cccccc"
                           ELSE options.backgroundColor
        textColor == IF options.textColor = None THEN "#666666"
                     ELSE options.textColor
        format == determineFormat(targetPath, options.format,
                                  cfg.defaultFormat)
    IN  IF options.useImage
        THEN IF fetch = "failed"
             THEN [status |-> "error", error |-> FetchError,
                   format |-> format, canvas |-> NoCanvas,
                   width |-> 0, height |-> 0]
             ELSE [status |-> "ok", error |-> None, format |-> format,
                   canvas |-> FetchedCanvas(options.width, options.height),
                   width |-> options.width, height |-> options.height]
        ELSE IF format \notin Formats
        THEN [status |-> "error", error |-> UnsupportedFormat,
              format |-> format, canvas |-> NoCanvas,
              width |-> 0, height |-> 0]
        ELSE [status |-> "ok", error |-> None, format |-> format,
              canvas |-> Canvas(options.width, options.height,
                                backgroundColor, textColor),
              width |-> options.width, height |-> options.height]

(***************************************************************************)
(* Favicon: createFavicon                                                  *)
(***************************************************************************)
\* A size is a number (the tool schema: 16..512); the model counts sizes in
\* halves of a pixel: 16.5, 32, 180, 192 and 512 pixels.
FaviconSizeOptions == {33, 64, 360, 384, 1024}

\* const defaultSizes = [16, 32, 48, 180, 192, 512]
DefaultSizes == <<32, 64, 96, 360, 384, 1024>>

\* options.sizes: not given, or a list of sizes.
NoSizes == <<0>>

SizeLists ==
    {NoSizes} \cup UNION {[1..n -> FaviconSizeOptions] : n \in 0..MaxSizes}

FaviconSources == {<<1000, 800>>, <<1, 1>>, <<2, 3>>}

\* `${size}` of a size counted in halves.
SizeText(size) ==
    CASE size = 32 -> "16" [] size = 33 -> "16.5" [] size = 64 -> "32"
      [] size = 96 -> "48" [] size = 360 -> "180" [] size = 384 -> "192"
      [] size = 1024 -> "512"

\* `favicon-${size}x${size}.png`
FaviconFileName(size) ==
    "favicon-" \o SizeText(size) \o "x" \o SizeText(size) \o ".png"

FaviconFile(size) ==
    [path |-> FaviconFileName(size),
     size |-> SizeText(size) \o "x" \o SizeText(size), format |-> "png"]

\* size === 180 ? apple-touch-icon : icon
LinkRelIconOnly(size) == "icon"

LinkRel(size) == IF size = 360 THEN "apple-touch-icon" ELSE "icon"

HtmlLink(rel, sizes, href) == [rel |-> rel, sizes |-> sizes, href |-> href]

\* const sizes = options.sizes || defaultSizes
EffectiveSizes(sizes) == IF sizes = NoSizes THEN DefaultSizes ELSE sizes

\* sizes.includes(v)
Includes(sizes, v) == \E i \in 1..Len(sizes) : sizes[i] = v

\* sharp's resize(size, size, { fit: 'fill' }) of a size in halves: the
\* call is rejected unless the size is a positive integer.
FaviconResizeOk(size) == size % 2 = 0 /\ size >= 2

FaviconResize(size) == ResizeCall(size \div 2, size \div 2, "fill", FALSE)

\* The square the renditions are made from: the centre crop of side
\* min(w, h) when the source is not square.
SquareCalls(w, h) ==
    IF w # h
    THEN <<ExtractCall(Floor(w - Min(w, h), 2), Floor(h - Min(w, h), 2),
                       Min(w, h), Min(w, h))>>
    ELSE <<>>

\* The number of sizes the loop gets through before a resize is rejected.
RECURSIVE Generated(_)
Generated(sizes) ==
    IF sizes = <<>> \/ ~FaviconResizeOk(Head(sizes)) THEN 0
    ELSE 1 + Generated(Tail(sizes))

\* The whole of createFavicon on a decoded w x h source.
createFavicon(src, r) ==
    LET sizes == EffectiveSizes(r.sizes)
        done == Generated(sizes)
        square == RunPipeline(src, SquareCalls(src.w, src.h))
        rendition(size) == SharpResize(square, FaviconResize(size))
        files == [i \in 1..done |-> FaviconFile(sizes[i])]
        images == [i \in 1..done |-> rendition(sizes[i])]
        links == [i \in 1..done |->
                    HtmlLink(LinkRel(sizes[i]), FaviconFile(sizes[i]).size,
                             FaviconFileName(sizes[i]))]
        manifest == IF Includes(sizes, 384) /\ Includes(sizes, 1024)
                    THEN <<HtmlLink("manifest", "", "site.webmanifest")>>
                    ELSE <<>>
    IN  IF done < Len(sizes)
        THEN [status |-> "error", error |-> InvalidResize, files |-> <<>>,
              images |-> <<>>, htmlLinks |-> <<>>,
              favicon |-> NoImage,
              written |-> [i \in 1..done |-> files[i].path]]
        ELSE [status |-> "ok", error |-> None, files |-> files,
              images |-> images,
              htmlLinks |-> <<HtmlLink("icon", "", "favicon.png")>>
                            \o links \o manifest,
              favicon |-> SharpResize(square, FaviconResize(64)),
              written |-> [i \in 1..done |-> files[i].path]
                          \o <<"favicon.png">>]

(***************************************************************************)
(* Color Palette Extractor: extractColors (color-extraction.ts)            *)
(***************************************************************************)
\* The quantizer's buckets.  A swatch is its rgb triple, the channels
\* counted in halves (the quantizer gives fractions); a bucket it did not
\* produce is null.
BucketKeys ==
    <<"Vibrant", "Muted", "DarkVibrant", "LightVibrant", "DarkMuted",
      "LightMuted">>

NoSwatch == <<>>

Swatches == {<<-1, 255, 511>>, <<40, 40, 41>>}

Palettes == [{BucketKeys[i] : i \in 1..6} -> Swatches \cup {NoSwatch}]

\* metadata.format of the source buffer.
SourceFormats == {"jpeg", "webp"}

\* Math.round(Math.max(0, Math.min(255, v))) of a channel in halves.
NormalizeChannelNoClamp(v) == Round(v, 2)

NormalizeChannel(v) == Round(Max(0, Min(510, v)), 2)

\* normalizeRgb of a triple in halves, and of one already normalised.
normalizeRgb(rgb) == [i \in 1..3 |-> NormalizeChannel(rgb[i])]

Renormalize(rgb) == [i \in 1..3 |-> NormalizeChannel(2 * rgb[i])]

\* n.toString(16).padStart(2, '0'), upper-cased.
HexDigits ==
    <<"0", "1", "2", "3", "4", "5", "6", "7", "8", "9", "A", "B", "C", "D",
      "E", "F">>

Hex2(n) == HexDigits[(n \div 16) + 1] \o HexDigits[(n % 16) + 1]

rgbToString(rgb) ==
    LET n == Renormalize(rgb)
    IN  "rgb(" \o ToString(n[1]) \o ", " \o ToString(n[2]) \o ", "
        \o ToString(n[3]) \o ")"

rgbToHex(rgb) ==
    LET n == Renormalize(rgb)
    IN  "#" \o Hex2(n[1]) \o Hex2(n[2]) \o Hex2(n[3])

ColorData(rgb) ==
    [rgb |-> rgbToString(rgb), hex |-> rgbToHex(rgb), rgbArray |-> rgb]

NoColor == [rgb |-> "", hex |-> "", rgbArray |-> <<>>]

\* palette.Vibrant || palette.Muted || palette.DarkVibrant
\*   || palette.LightVibrant || palette.DarkMuted || palette.LightMuted
DominantPriorityMutedFirst ==
    <<"Muted", "Vibrant", "DarkVibrant", "LightVibrant", "DarkMuted",
      "LightMuted">>

DominantPriority ==
    <<"Vibrant", "Muted", "DarkVibrant", "LightVibrant", "DarkMuted",
      "LightMuted">>

RECURSIVE FirstProduced(_, _)
FirstProduced(palette, keys) ==
    IF keys = <<>> THEN NoSwatch
    ELSE IF palette[Head(keys)] # NoSwatch THEN palette[Head(keys)]
    ELSE FirstProduced(palette, Tail(keys))

DominantColor(palette) == FirstProduced(palette, DominantPriority)

\* colorMap: the buckets in presentation order with their names and the
\* palette fields they fill.
ColorMapLightFirst ==
    <<[key |-> "LightMuted", name |-> "Light Muted", field |-> "lightMuted"],
      [key |-> "Vibrant", name |-> "Vibrant", field |-> "vibrant"],
      [key |-> "Muted", name |-> "Muted", field |-> "muted"],
      [key |-> "DarkVibrant", name |-> "Dark Vibrant",
       field |-> "darkVibrant"],
      [key |-> "LightVibrant", name |-> "Light Vibrant",
       field |-> "lightVibrant"],
      [key |-> "DarkMuted", name |-> "Dark Muted", field |-> "darkMuted"]>>

ColorMap ==
    <<[key |-> "Vibrant", name |-> "Vibrant", field |-> "vibrant"],
      [key |-> "Muted", name |-> "Muted", field |-> "muted"],
      [key |-> "DarkVibrant", name |-> "Dark Vibrant",
       field |-> "darkVibrant"],
      [key |-> "LightVibrant", name |-> "Light Vibrant",
       field |-> "lightVibrant"],
      [key |-> "DarkMuted", name |-> "Dark Muted", field |-> "darkMuted"],
      [key |-> "LightMuted", name |-> "Light Muted",
       field |-> "lightMuted"]>>

PaletteFields == {ColorMap[i].field : i \in 1..Len(ColorMap)}

\* The loop over colorMap: the entries pushed to allColors.
RECURSIVE AllColors(_, _)
AllColors(palette, map) ==
    IF map = <<>> THEN <<>>
    ELSE (IF palette[Head(map).key] # NoSwatch
          THEN <<[name |-> Head(map).name,
                  color |-> ColorData(normalizeRgb(palette[Head(map).key]))]>>
          ELSE <<>>)
         \o AllColors(palette, Tail(map))

\* ... and the palette fields it sets.
PaletteOf(palette, map) ==
    [f \in PaletteFields |->
        LET i == CHOOSE j \in 1..Len(map) : map[j].field = f
        IN  IF palette[map[i].key] # NoSwatch
            THEN ColorData(normalizeRgb(palette[map[i].key]))
            ELSE NoColor]

NoColorsExtracted ==
    "Failed to extract colors: Could not extract colors from image"

\* The whole of extractColors.  sourceFormat is the format of the buffer,
\* palette what the quantizer returns for it; transcoded tells whether the
\* buffer went through png first.
extractColors(sourceFormat, palette) ==
    LET transcoded == sourceFormat \in {"webp", "avif"}
        dominantColor == DominantColor(palette)
    IN  IF dominantColor = NoSwatch
        THEN [status |-> "error", error |-> NoColorsExtracted,
              transcoded |-> transcoded, dominant |-> NoColor,
              palette |-> [f \in PaletteFields |-> NoColor],
              allColors |-> <<>>]
        ELSE [status |-> "ok", error |-> None, transcoded |-> transcoded,
              dominant |-> ColorData(normalizeRgb(dominantColor)),
              palette |-> PaletteOf(palette, ColorMap),
              allColors |-> AllColors(palette, ColorMap)]

(***************************************************************************)
(* Rotate: rotateImage                                                     *)
(***************************************************************************)
\* options.angle undefined.
NoAngle == 999

AngleOptions == {NoAngle, -90, 0, 90, 450}

RotateSources == {MissingFile, <<40, 20>>}

\* JavaScript's a % n: the remainder takes the sign of the dividend.
JsRem(a, n) == IF a >= 0 THEN a % n ELSE -((-a) % n)

\* The rotation angle: options.angle % 360, brought into 0..359, else the
\* first of rotate270, rotate180, rotate90 that is set, else 0.
RotationAngle(r) ==
    IF r.angle # NoAngle
    THEN IF JsRem(r.angle, 360) < 0 THEN JsRem(r.angle, 360) + 360
         ELSE JsRem(r.angle, 360)
    ELSE IF r.rotate270 THEN 270
    ELSE IF r.rotate180 THEN 180
    ELSE IF r.rotate90 THEN 90
    ELSE 0

RotateCall(angle) == [call |-> "rotate", angle |-> angle]

\* What rotate(angle) does to the dimensions, for quarter turns.
SharpRotate(img, angle) ==
    IF angle \in {90, 270} THEN Image(img.h, img.w) ELSE img

RotateFailure(kind, fmt, calls) ==
    [status |-> "error", error |-> kind, format |-> fmt, calls |-> calls,
     angle |-> 0, width |-> 0, height |-> 0]

\* The whole of rotateImage.  r.image is the source file.
rotateImage(cfg, r) ==
    LET format == determineFormat(r.outputPath, r.format, cfg.defaultFormat)
        angle == RotationAngle(r)
        calls == IF angle # 0 THEN <<RotateCall(angle)>> ELSE <<>>
        out == SharpRotate(Image(r.image[1], r.image[2]), angle)
    IN  IF r.image = MissingFile THEN RotateFailure(MissingSource, None, <<>>)
        ELSE IF format \notin Formats
        THEN RotateFailure(UnsupportedFormat, format, calls)
        ELSE [status |-> "ok", error |-> None, format |-> format,
              calls |-> calls, angle |-> angle, width |-> out.w,
              height |-> out.h]

(***************************************************************************)
(* Optimize: image_optimize and optimizeImage                              *)
(***************************************************************************)
\* params.imagePath, split at '.', and params.outputPath (NoPath: none).
OptimizePaths ==
    {<<"photo", "jpg">>, <<"photo", "png">>, <<"photo", "webp">>,
     <<"photo", "WEBP">>, <<"photo">>}

NoPath == <<>>

OptimizeOutputs == {NoPath, <<"out", "png">>}

\* metadata.format and metadata.hasAlpha of the source.
OptimizeFormats == {"jpeg", "png", "webp"}

\* params.outputPath ? resolvePathSafe(projectRoot, params.outputPath)
\*                   : fullInputPath
OutputFilePath(params) ==
    IF params.outputPath # NoPath THEN params.outputPath ELSE params.imagePath

\* bestFormat: png for a source with alpha, webp otherwise.
BestFormat(hasAlpha, originalFormat) ==
    IF hasAlpha THEN "png"
    ELSE IF originalFormat = "png" THEN "webp"
    ELSE IF originalFormat \in {"jpeg", "jpg"} THEN "webp"
    ELSE "webp"

\* targetPath.replace(/\.\w+$/, `.${bestFormat}`): the last '.'-segment is
\* replaced when there is one and it is made of word characters.
ReplaceExtension(targetPath, bestFormat) ==
    IF Len(targetPath) >= 2 /\ targetPath[Len(targetPath)] # ""
    THEN [targetPath EXCEPT ![Len(targetPath)] = bestFormat]
    ELSE targetPath

\* ext === bestFormat ? targetPath : targetPath.replace(...)
OptimizedPath(targetPath, bestFormat) ==
    IF targetPath[Len(targetPath)] = bestFormat THEN targetPath
    ELSE ReplaceExtension(targetPath, bestFormat)

ImageNotFound == "Image file not found"

\* optimizeImage: processLocalImage on the path with the best format's
\* extension.  The result carries the path processLocalImage writes to.
optimizeImage(cfg, src, targetPath, hasAlpha, originalFormat, maxWidth) ==
    LET bestFormat == BestFormat(hasAlpha, originalFormat)
        outputPath == OptimizedPath(targetPath, bestFormat)
        result == processLocalImage(cfg, src,
                     [origW |-> src.w, origH |-> src.h,
                      targetPath |-> outputPath, format |-> bestFormat,
                      width |-> 0, height |-> 0, maxWidth |-> maxWidth,
                      aspectRatio |-> NoRatio, circle |-> FALSE])
    IN  [status |-> result.status, error |-> result.error,
         format |-> result.format, filePath |-> outputPath,
         width |-> result.width, height |-> result.height]

(***************************************************************************)
(* ProviderManager: searchWithFallback and getPhotoWithFallback            *)
(***************************************************************************)
Pexels == "pexels"

Pixabay == "pixabay"

OpenAI == "openai"

Auto == "auto"

\* No provider instance (null).
NoProvider == "none"

\* A manager after construction: the providers whose API key was given, and
\* config.defaultProvider.
Managers ==
    [providers : SUBSET {Pexels, Pixabay, OpenAI},
     defaultProvider : {Pexels, Pixabay, OpenAI, Auto}]

\* The provider parameter of stock_images_search and of the download tool.
RequestedProviders == {Pexels, Pixabay, Auto}

\* The providers whose API call fails in this invocation.
FailingSets == SUBSET {Pexels, Pixabay}

\* requestedProvider === AUTO ? (defaultProvider === AUTO ? PEXELS
\*                                : defaultProvider) : requestedProvider
ResolveProvider(m, requestedProvider) ==
    IF requestedProvider = Auto
    THEN IF m.defaultProvider = Auto THEN Pexels ELSE m.defaultProvider
    ELSE requestedProvider

\* providers.get(p) exists and isAvailable(): the key was given.
Available(m, p) == p \in m.providers

getProviderInstance(m, requestedProvider) ==
    LET provider == ResolveProvider(m, requestedProvider)
    IN  IF provider = OpenAI THEN NoProvider
        ELSE IF ~Available(m, provider) THEN NoProvider
        ELSE provider

getFallbackProvider(m, currentProvider) ==
    LET fallbackProvider ==
            IF currentProvider = Pexels THEN Pixabay ELSE Pexels
    IN  IF currentProvider = OpenAI THEN NoProvider
        ELSE IF Available(m, fallbackProvider) THEN fallbackProvider
        ELSE NoProvider

\* provider = fallbackInstance.name, when the primary is unavailable.
ProviderAfterFallbackKept(provider, fallbackInstance) == provider

ProviderAfterFallback(provider, fallbackInstance) == fallbackInstance

\* Fallback after a failed primary call is allowed when auto was requested
\* or the default provider is auto.
FallbackAllowed(m, requestedProvider) ==
    requestedProvider = Auto \/ m.defaultProvider = Auto

NoAvailableProviders == "No available providers"

PrimaryFailed == "primary provider failed"

BothProvidersFailed == "Both providers failed"

FallbackProviderFailed == "Fallback provider failed"

FallbackNotPossible == "Fallback is not possible"

\* calls: the providers whose API was called, in order.
ProviderError(kind, calls) ==
    [status |-> "error", error |-> kind, provider |-> NoProvider,
     fallbackUsed |-> FALSE, calls |-> calls]

ProviderResult(provider, fallbackUsed, calls) ==
    [status |-> "ok", error |-> None, provider |-> provider,
     fallbackUsed |-> fallbackUsed, calls |-> calls]

\* The tail of both functions, reached when the primary is unavailable and
\* provider was set to the fallback's name.
AfterUnavailable(m, provider, failing) ==
    LET fallbackInstance == getFallbackProvider(m, provider)
    IN  IF fallbackInstance = NoProvider
        THEN ProviderError(NoAvailableProviders, <<>>)
        ELSE IF fallbackInstance \in failing
        THEN ProviderError(FallbackProviderFailed, <<fallbackInstance>>)
        ELSE ProviderResult(fallbackInstance, TRUE, <<fallbackInstance>>)

searchWithFallback(m, requestedProvider, failing) ==
    LET provider == ResolveProvider(m, requestedProvider)
        primaryInstance == getProviderInstance(m, provider)
        fallbackInstance == getFallbackProvider(m, provider)
    IN  IF primaryInstance = NoProvider
        THEN IF fallbackInstance = NoProvider
             THEN ProviderError(NoAvailableProviders, <<>>)
             ELSE AfterUnavailable(m,
                      ProviderAfterFallback(provider, fallbackInstance),
                      failing)
        ELSE IF primaryInstance \notin failing
        THEN ProviderResult(primaryInstance, FALSE, <<primaryInstance>>)
        ELSE IF provider = OpenAI
        THEN ProviderError(PrimaryFailed, <<primaryInstance>>)
        ELSE IF fallbackInstance # NoProvider
                /\ FallbackAllowed(m, requestedProvider)
        THEN IF fallbackInstance \in failing
             THEN ProviderError(BothProvidersFailed,
                                <<primaryInstance, fallbackInstance>>)
             ELSE ProviderResult(fallbackInstance, TRUE,
                                 <<primaryInstance, fallbackInstance>>)
        ELSE ProviderError(PrimaryFailed, <<primaryInstance>>)

getPhotoWithFallback(m, requestedProvider, failing) ==
    LET provider == ResolveProvider(m, requestedProvider)
        primaryInstance == getProviderInstance(m, provider)
        fallbackInstance == getFallbackProvider(m, provider)
    IN  IF primaryInstance = NoProvider
        THEN IF fallbackInstance = NoProvider
             THEN ProviderError(NoAvailableProviders, <<>>)
             ELSE AfterUnavailable(m,
                      ProviderAfterFallback(provider, fallbackInstance),
                      failing)
        ELSE IF primaryInstance \notin failing
        THEN ProviderResult(provider, FALSE, <<primaryInstance>>)
        ELSE IF FallbackAllowed(m, requestedProvider)
                /\ fallbackInstance # NoProvider
        THEN ProviderError(FallbackNotPossible, <<primaryInstance>>)
        ELSE ProviderError(PrimaryFailed, <<primaryInstance>>)

(***************************************************************************)
(* OpenAIProvider.search: the retry loop                                   *)
(***************************************************************************)
MaxRetries == 3

\* Milliseconds.
RetryDelay == 2000

\* What one fetch of the generations endpoint comes back with: a response
\* with its status, the number of images in its body and whether the text
\* of an error body mentions one of the retryable codes, or a thrown fetch.
Response(status, images, mentions) ==
    [kind |-> "response", status |-> status, images |-> images,
     mentionsCode |-> mentions]

NetworkError ==
    [kind |-> "thrown", status |-> 0, images |-> 0, mentionsCode |-> FALSE]

FetchResults ==
    {Response(200, 1, FALSE), Response(200, 0, FALSE),
     Response(400, 0, FALSE), Response(400, 0, TRUE),
     Response(401, 0, FALSE), Response(429, 0, FALSE),
     Response(503, 0, FALSE), NetworkError}

\* The results of the fetches of one call, should it make that many.
FetchSequences == [1..MaxRetries -> FetchResults]

RetryableStatuses == {500, 502, 503, 504, 429}

isRetryableError(status) == status \in RetryableStatuses

\* 2 ^ attempt for the attempts of the loop.
Pow2(n) == IF n = 0 THEN 1 ELSE IF n = 1 THEN 2 ELSE 4

\* errorObj.message.includes('500') || ... || includes('429'): the message
\* of a status error carries the status and the body's message.
MessageIncludesRetryable(r) ==
    \/ r.kind = "response" /\ r.status # 200
          /\ (r.status \in RetryableStatuses \/ r.mentionsCode)
    \/ r.kind = "thrown" /\ r.mentionsCode

NotConfigured == "OpenAI API key is not configured"

GenerationFailed == "OpenAI generation failed"

SearchOutcome(status, error, requests, delays) ==
    [status |-> status, error |-> error, requests |-> requests,
     delays |-> delays]

\* One iteration of the for loop and the ones after it.  requests counts
\* the fetches sent, delays lists the waits before retries.
RECURSIVE SearchLoop(_, _, _)
SearchLoop(fetches, attempt, delays) ==
    LET r == fetches[attempt + 1]
        delay == RetryDelay * Pow2(attempt)
        caught ==
            IF MessageIncludesRetryable(r) /\ attempt < MaxRetries - 1
            THEN SearchLoop(fetches, attempt + 1, Append(delays, delay))
            ELSE IF attempt = MaxRetries - 1
            THEN SearchOutcome("error", GenerationFailed, attempt + 1,
                               delays)
            ELSE SearchLoop(fetches, attempt + 1, delays)
    IN  IF r.kind = "thrown" THEN caught
        ELSE IF r.status # 200
        THEN IF isRetryableError(r.status) /\ attempt < MaxRetries - 1
             THEN SearchLoop(fetches, attempt + 1, Append(delays, delay))
             ELSE caught
        ELSE IF r.images = 0 THEN caught
        ELSE SearchOutcome("ok", None, attempt + 1, delays)

openaiSearch(available, fetches) ==
    IF ~available THEN SearchOutcome("error", NotConfigured, 0, <<>>)
    ELSE SearchLoop(fetches, 0, <<>>)

(***************************************************************************)
(* HTTP transport: createHttpTransport                                     *)
(***************************************************************************)
\* Requests the transport receives in one run.
MaxRequests == 3

\* body.id of a request; 0 is the id that is falsy in JavaScript.
Ids == {0, 1}

\* null, for currentResponse, responseTimeout and a body's id.
Null == -1

\* body.id || null in the timeout error.
IdOrNull(id) == IF id = 0 THEN Null ELSE id

\* A body written to an HTTP response.  of is the request the body was
\* made for (0: none).
Body(status, kind, of, id) ==
    [status |-> status, kind |-> kind, of |-> of, id |-> id]

\* An HTTP exchange: what was received and the bodies written to its
\* response.
Connection(kind, id, bodies) == [kind |-> kind, id |-> id, bodies |-> bodies]

\* sendJson(res, statusCode, data) / res.end() on connection c.
sendJson(conns, c, body) ==
    [conns EXCEPT ![c].bodies = Append(@, body)]

TimeoutBody(t, id) == Body(500, "Request timeout", t, IdOrNull(id))

ReplyBody(n, id) == Body(200, "reply", n, id)

\* The connection send() and the timer callback write to.
SendTarget(n) == currentResponse

\* The earliest armed timer: all timers wait the same 60 seconds.
NextTimer == CHOOSE t \in timers : \A u \in timers : t <= u

(***************************************************************************)
(* Concurrent calls of processLocalImage                                   *)
(***************************************************************************)
Invocations == {1, 2}

\* The output paths of the calls, all in one directory.
ConcurrentTargets == {<<"a", "jpg">>, <<"b", "png">>, <<"c", "constructor">>}

OutputDir == "out"

\* imageBuffer and options of a call.
ConcurrentArgs ==
    {[src |-> Image(s[1], s[2]),
      r |-> [origW |-> s[1], origH |-> s[2], targetPath |-> t,
             format |-> None, width |-> w, height |-> 0, maxWidth |-> 0,
             aspectRatio |-> ar, circle |-> FALSE]] :
        s \in {<<3, 2>>, <<4000, 2000>>}, t \in ConcurrentTargets,
        w \in {0, 2}, ar \in {NoRatio, <<1, 1>>}}

NoArgs ==
    [src |-> Image(1, 1),
     r |-> [origW |-> 1, origH |-> 1, targetPath |-> <<>>, format |-> None,
            width |-> 0, height |-> 0, maxWidth |-> 0,
            aspectRatio |-> NoRatio, circle |-> FALSE]]

NoResult == Failure("none", "none", "none", <<>>)

\* The content of a file: the encoded image's format and size.
FileContent(result) ==
    [format |-> result.format, w |-> result.width, h |-> result.height]

NoFile == [format |-> "none", w |-> 0, h |-> 0]

\* The activation record that holds the parameters and locals of call i:
\* every call of the function has its own.
FrameShared(i) == 1

Frame(i) == i

EmptyFrame == [args |-> NoArgs, metadata |-> Image(1, 1), buffer |-> NoResult]

Init ==
    /\ config \in Configs
    /\ op = "idle"
    /\ req = None
    /\ res = None
    /\ written = <<>>
    /\ currentResponse = Null
    /\ responseTimeout = Null
    /\ timers = {}
    /\ connections = <<>>
    /\ inbox = {}
    /\ invocations = [i \in Invocations |->
                        [pc |-> "idle", args |-> NoArgs, returned |-> NoResult]]
    /\ frames = [i \in Invocations |-> EmptyFrame]
    /\ fileSystem = [t \in ConcurrentTargets |-> NoFile]
    /\ dirs = {}

\* A direct call of determineFormat, as every operation makes first.
DetermineFormat ==
    /\ op = "idle"
    /\ \E p \in TargetPaths, f \in FormatParams, d \in Formats :
          /\ req' = [targetPath |-> p, format |-> f, defaultFormat |-> d]
          /\ res' = [format |-> determineFormat(p, f, d)]
    /\ op' = "determineFormat"
    /\ UNCHANGED <<config, written, transportVars, concurrentVars>>

ProcessLocalImage ==
    /\ op = "idle"
    /\ \E s \in SourceSizes, t \in OutputTargets, w \in DimOptions,
          h \in DimOptions, mw \in DimOptions, ar \in AspectRatios,
          c \in BOOLEAN :
          LET r == [origW |-> s[1], origH |-> s[2],
                    targetPath |-> t.targetPath, format |-> t.format,
                    width |-> w, height |-> h, maxWidth |-> mw,
                    aspectRatio |-> ar, circle |-> c]
          IN  /\ req' = r
              /\ res' = processLocalImage(config, Image(s[1], s[2]), r)
              /\ written' =
                    WriteAsset(processLocalImage(config, Image(s[1], s[2]), r))
    /\ op' = "processLocalImage"
    /\ UNCHANGED <<config, transportVars, concurrentVars>>

ProcessAndSaveImage ==
    /\ op = "idle"
    /\ \E s \in SourceSizes, t \in OutputTargets, w \in DimOptions,
          h \in DimOptions, mw \in DimOptions, ar \in AspectRatios,
          io \in IoOutcomes :
          LET r == [origW |-> s[1], origH |-> s[2],
                    targetPath |-> t.targetPath, format |-> t.format,
                    width |-> w, height |-> h, maxWidth |-> mw,
                    aspectRatio |-> ar, io |-> io]
              saved == SaveImage(config,
                           processAndSaveImage(config, Image(s[1], s[2]), r),
                           io)
          IN  /\ req' = r
              /\ res' = saved.res
              /\ written' = saved.written
    /\ op' = "processAndSaveImage"
    /\ UNCHANGED <<config, transportVars, concurrentVars>>

\* Output path and format parameter of a watermark request.
WatermarkTargets ==
    {[outputPath |-> <<"photo", "jpg">>, format |-> None],
     [outputPath |-> <<"photo", "constructor">>, format |-> None]}

\* A request carries a text watermark, an image watermark or neither.
AddWatermark ==
    /\ op = "idle"
    /\ \E i \in ImageFiles, t \in WatermarkTargets, pl \in Placements,
          len \in TextLengths, fs \in FontSizes, wf \in WatermarkFiles,
          sz \in SizeOptions, sp \in SizePercentOptions :
          /\ len # 0 => (wf = NoWatermarkPath /\ sz = 0 /\ sp = 0)
          /\ len = 0 => fs = 0
          /\ wf \in {NoWatermarkPath, MissingFile} => (sz = 0 /\ sp = 0)
          /\ LET r == [image |-> i, outputPath |-> t.outputPath,
                       format |-> t.format, textLength |-> len,
                       fontSize |-> fs, watermark |-> wf, size |-> sz,
                       sizePercent |-> sp, position |-> pl.position,
                       x |-> pl.x, y |-> pl.y]
             IN  /\ req' = r
                 /\ res' = addWatermark(config, r)
                 /\ written' = WriteAsset(addWatermark(config, r))
    /\ op' = "addWatermark"
    /\ UNCHANGED <<config, transportVars, concurrentVars>>

\* Source file, output path and format parameter of a filter request.
FilterSources == {MissingFile, <<100, 100>>}

FilterTargets ==
    {[outputPath |-> <<"photo", "jpg">>, format |-> None],
     [outputPath |-> <<"photo", "constructor">>, format |-> "png"]}

ApplyFilters ==
    /\ op = "idle"
    /\ \E i \in FilterSources, t \in FilterTargets, bl \in SigmaOptions,
          sh \in SigmaOptions, g \in BOOLEAN, se \in BOOLEAN,
          br \in ToneOptions, co \in ToneOptions, sa \in ToneOptions,
          o \in OptionOrders :
          LET r == [image |-> i, outputPath |-> t.outputPath,
                    format |-> t.format, blur |-> bl, sharpen |-> sh,
                    grayscale |-> g, sepia |-> se, brightness |-> br,
                    contrast |-> co, saturation |-> sa, optionOrder |-> o]
          IN  /\ req' = r
              /\ res' = applyFilters(config, r)
              /\ written' = WriteAsset(applyFilters(config, r))
    /\ op' = "applyFilters"
    /\ UNCHANGED <<config, transportVars, concurrentVars>>

CropImage ==
    /\ op = "idle"
    /\ \E i \in CropSources, t \in FilterTargets, x \in CropOffsets,
          y \in CropOffsets, w \in CropSizes, h \in CropSizes :
          LET r == [image |-> i, outputPath |-> t.outputPath,
                    format |-> t.format, x |-> x, y |-> y, width |-> w,
                    height |-> h]
          IN  /\ req' = r
              /\ res' = cropImage(config, r)
              /\ written' = WriteAsset(cropImage(config, r))
    /\ op' = "cropImage"
    /\ UNCHANGED <<config, transportVars, concurrentVars>>

\* The tool image_create_placeholder: its handler builds the options and
\* calls createPlaceholderImage.
CreatePlaceholder ==
    /\ op = "idle"
    /\ \E t \in PlaceholderTargets, sz \in PlaceholderSizes,
          bg \in ColorOptions, tc \in ColorOptions, f \in FetchOutcomes,
          tr \in BOOLEAN :
          LET params == [outputPath |-> t.outputPath, format |-> t.format,
                         width |-> sz[1], height |-> sz[2],
                         backgroundColor |-> bg, textColor |-> tc,
                         useImage |-> f # "none", fetch |-> f,
                         transparent |-> tr]
              result == createPlaceholderImage(params.outputPath, config,
                            PlaceholderOptions(params), f)
          IN  /\ req' = params
              /\ res' = result
              /\ written' = WriteAsset(result)
    /\ op' = "createPlaceholder"
    /\ UNCHANGED <<config, transportVars, concurrentVars>>

CreateFavicon ==
    /\ op = "idle"
    /\ \E s \in FaviconSources, sizes \in SizeLists :
          LET r == [origW |-> s[1], origH |-> s[2], sizes |-> sizes]
              result == createFavicon(Image(s[1], s[2]), r)
          IN  /\ req' = r
              /\ res' = [f \in DOMAIN result \ {"written"} |-> result[f]]
              /\ written' = result.written
    /\ op' = "createFavicon"
    /\ UNCHANGED <<config, transportVars, concurrentVars>>

ExtractColors ==
    /\ op = "idle"
    /\ \E f \in SourceFormats, p \in Palettes :
          /\ req' = [sourceFormat |-> f, quantized |-> p]
          /\ res' = extractColors(f, p)
    /\ op' = "extractColors"
    /\ UNCHANGED <<config, written, transportVars, concurrentVars>>

\* Output path and format parameter of a rotation request.
RotateTargets ==
    {[outputPath |-> <<"photo", "jpg">>, format |-> None],
     [outputPath |-> <<"photo", "constructor">>, format |-> None]}

RotateImage ==
    /\ op = "idle"
    /\ \E i \in RotateSources, t \in RotateTargets, a \in AngleOptions,
          r90 \in BOOLEAN, r180 \in BOOLEAN, r270 \in BOOLEAN :
          LET r == [image |-> i, outputPath |-> t.outputPath,
                    format |-> t.format, angle |-> a, rotate90 |-> r90,
                    rotate180 |-> r180, rotate270 |-> r270]
          IN  /\ req' = r
              /\ res' = rotateImage(config, r)
              /\ written' = WriteAsset(rotateImage(config, r))
    /\ op' = "rotateImage"
    /\ UNCHANGED <<config, transportVars, concurrentVars>>

\* The tool image_optimize: its handler checks the file and calls
\* optimizeImage with the output path, or the input path when none is given.
OptimizeImage ==
    /\ op = "idle"
    /\ \E ip \in OptimizePaths, o \in OptimizeOutputs, exists \in BOOLEAN,
          f \in OptimizeFormats, alpha \in BOOLEAN, mw \in DimOptions :
          LET params == [imagePath |-> ip, outputPath |-> o,
                         exists |-> exists, sourceFormat |-> f,
                         hasAlpha |-> alpha, maxWidth |-> mw]
              result == optimizeImage(config, Image(MaxDim, MaxDim),
                                      OutputFilePath(params), alpha, f, mw)
          IN  /\ req' = params
              /\ res' = IF exists THEN result
                        ELSE [status |-> "error", error |-> ImageNotFound,
                              format |-> None, filePath |-> NoPath,
                              width |-> 0, height |-> 0]
              /\ written' = IF exists /\ result.status = "ok"
                            THEN <<result.filePath>> ELSE <<>>
    /\ op' = "optimizeImage"
    /\ UNCHANGED <<config, transportVars, concurrentVars>>

\* The tool stock_images_search: one call of searchWithFallback.
SearchWithFallback ==
    /\ op = "idle"
    /\ \E m \in Managers, p \in RequestedProviders, failing \in FailingSets :
          /\ req' = [manager |-> m, provider |-> p, failing |-> failing]
          /\ res' = searchWithFallback(m, p, failing)
    /\ op' = "searchWithFallback"
    /\ UNCHANGED <<config, written, transportVars, concurrentVars>>

\* The download tool's call of getPhotoWithFallback.
GetPhotoWithFallback ==
    /\ op = "idle"
    /\ \E m \in Managers, p \in RequestedProviders, failing \in FailingSets :
          /\ req' = [manager |-> m, provider |-> p, failing |-> failing]
          /\ res' = getPhotoWithFallback(m, p, failing)
    /\ op' = "getPhotoWithFallback"
    /\ UNCHANGED <<config, written, transportVars, concurrentVars>>

\* One call of OpenAIProvider.search.
OpenAISearch ==
    /\ op = "idle"
    /\ \E available \in BOOLEAN, fetches \in FetchSequences :
          /\ req' = [available |-> available, fetches |-> fetches]
          /\ res' = openaiSearch(available, fetches)
    /\ op' = "openaiSearch"
    /\ UNCHANGED <<config, written, transportVars, concurrentVars>>

Next ==
    \/ DetermineFormat
    \/ ProcessLocalImage
    \/ ProcessAndSaveImage
    \/ AddWatermark
    \/ ApplyFilters
    \/ CropImage
    \/ CreatePlaceholder
    \/ CreateFavicon
    \/ ExtractColors
    \/ RotateImage
    \/ OptimizeImage
    \/ SearchWithFallback
    \/ GetPhotoWithFallback
    \/ OpenAISearch

Spec == Init /\ [][Next]_vars

\* Call i starts: its parameters are bound; it runs to the first await.
\* The calls under way write to different output paths.
Start(i) ==
    /\ invocations[i].pc = "idle"
    /\ \E a \in ConcurrentArgs :
          /\ \A j \in Invocations \ {i} :
                invocations[j].pc = "idle"
                    \/ invocations[j].args.r.targetPath # a.r.targetPath
          /\ invocations' = [invocations EXCEPT ![i].pc = "metadata", ![i].args = a]
          /\ frames' = [frames EXCEPT ![Frame(i)].args = a]
    /\ UNCHANGED <<fileSystem, dirs>>
    /\ UNCHANGED <<config, invocationVars, transportVars>>

\* await sharp(imageBuffer).metadata()
Metadata(i) ==
    /\ invocations[i].pc = "metadata"
    /\ frames' = [frames EXCEPT
                     ![Frame(i)].metadata = frames[Frame(i)].args.src]
    /\ invocations' = [invocations EXCEPT ![i].pc = "encode"]
    /\ UNCHANGED <<fileSystem, dirs>>
    /\ UNCHANGED <<config, invocationVars, transportVars>>

\* The pipeline is built and awaited: processedBuffer.  A failure is
\* thrown to the caller.
Encode(i) ==
    /\ invocations[i].pc = "encode"
    /\ LET f == frames[Frame(i)]
           result == processLocalImage(config, f.metadata, f.args.r)
       IN  /\ frames' = [frames EXCEPT ![Frame(i)].buffer = result]
           /\ invocations' = IF result.status = "ok"
                       THEN [invocations EXCEPT ![i].pc = "mkdir"]
                       ELSE [invocations EXCEPT ![i].pc = "done",
                                          ![i].returned = result]
    /\ UNCHANGED <<fileSystem, dirs>>
    /\ UNCHANGED <<config, invocationVars, transportVars>>

\* await mkdir(fileDir, { recursive: true }): an existing directory is
\* not an error.
Mkdir(i) ==
    /\ invocations[i].pc = "mkdir"
    /\ dirs' = dirs \cup {OutputDir}
    /\ invocations' = [invocations EXCEPT ![i].pc = "write"]
    /\ UNCHANGED <<frames, fileSystem>>
    /\ UNCHANGED <<config, invocationVars, transportVars>>

\* await writeFile(fullPath, processedBuffer), then the return.
WriteFile(i) ==
    /\ invocations[i].pc = "write"
    /\ LET f == frames[Frame(i)]
       IN  /\ fileSystem' = [fileSystem EXCEPT
                           ![f.args.r.targetPath] = FileContent(f.buffer)]
           /\ invocations' = [invocations EXCEPT ![i].pc = "done",
                                     ![i].returned = f.buffer]
    /\ UNCHANGED <<frames, dirs>>
    /\ UNCHANGED <<config, invocationVars, transportVars>>

ConcurrentNext ==
    \/ \E i \in Invocations : Start(i)
    \/ \E i \in Invocations : Metadata(i)
    \/ \E i \in Invocations : Encode(i)
    \/ \E i \in Invocations : Mkdir(i)
    \/ \E i \in Invocations : WriteFile(i)

ConcurrentSpec == Init /\ [][ConcurrentNext]_vars

\* A request that is not a POST to the transport's path: 404.
ReceiveOther ==
    /\ Len(connections) < MaxRequests
    /\ connections' = Append(connections,
                         Connection("other", Null, <<Body(404, "empty", 0, Null)>>))
    /\ UNCHANGED <<currentResponse, responseTimeout, timers, inbox>>
    /\ UNCHANGED <<config, invocationVars, concurrentVars>>

\* A POST whose body cannot be parsed: 500 Internal error with id null.
ReceiveInvalid ==
    /\ Len(connections) < MaxRequests
    /\ connections' = Append(connections,
                         Connection("invalid", Null,
                                    <<Body(500, "Internal error", 0, Null)>>))
    /\ UNCHANGED <<currentResponse, responseTimeout, timers, inbox>>
    /\ UNCHANGED <<config, invocationVars, concurrentVars>>

\* A POST without id or with a notifications/ method: passed to onmessage,
\* answered 204 at once.
ReceiveNotification ==
    /\ Len(connections) < MaxRequests
    /\ connections' = Append(connections,
                         Connection("notification", Null,
                                    <<Body(204, "empty", 0, Null)>>))
    /\ UNCHANGED <<currentResponse, responseTimeout, timers, inbox>>
    /\ UNCHANGED <<config, invocationVars, concurrentVars>>

\* A regular request: its response object is stored, a timer is armed and
\* its handle stored, and the message is passed to the server.
ReceiveRequest ==
    /\ Len(connections) < MaxRequests
    /\ \E id \in Ids :
          connections' = Append(connections, Connection("request", id, <<>>))
    /\ currentResponse' = Len(connections) + 1
    /\ responseTimeout' = Len(connections) + 1
    /\ timers' = timers \cup {Len(connections) + 1}
    /\ inbox' = inbox \cup {Len(connections) + 1}
    /\ UNCHANGED <<config, invocationVars, concurrentVars>>

\* The server calls send() with its reply to request n.
Send(n) ==
    /\ n \in inbox
    /\ inbox' = inbox \ {n}
    /\ timers' = timers \ {responseTimeout}
    /\ responseTimeout' = Null
    /\ IF SendTarget(n) # Null
       THEN /\ connections' = sendJson(connections, SendTarget(n),
                                       ReplyBody(n, connections[n].id))
            /\ currentResponse' = Null
       ELSE UNCHANGED <<connections, currentResponse>>
    /\ UNCHANGED <<config, invocationVars, concurrentVars>>

\* The timer armed for request t fires after 60 seconds.
Timeout ==
    /\ timers # {}
    /\ timers' = timers \ {NextTimer}
    /\ IF SendTarget(NextTimer) # Null
       THEN /\ connections' = sendJson(connections, SendTarget(NextTimer),
                                 TimeoutBody(NextTimer,
                                             connections[NextTimer].id))
            /\ currentResponse' = Null
       ELSE UNCHANGED <<connections, currentResponse>>
    /\ UNCHANGED <<responseTimeout, inbox>>
    /\ UNCHANGED <<config, invocationVars, concurrentVars>>

TransportNext ==
    \/ ReceiveOther
    \/ ReceiveInvalid
    \/ ReceiveNotification
    \/ ReceiveRequest
    \/ \E n \in 1..MaxRequests : Send(n)
    \/ Timeout

\* The transport with its environment: armed timers fire, and the server
\* answers every message it was handed.
TransportSpec ==
    /\ Init
    /\ [][TransportNext]_vars
    /\ WF_vars(Timeout)
    /\ \A n \in 1..MaxRequests : WF_vars(Send(n))

(***************************************************************************)
(* Properties                                                              *)
(***************************************************************************)
Processed == op \in {"processLocalImage", "processAndSaveImage"}

\* The request's circle flag (processAndSaveImage has none).
Circle == op = "processLocalImage" /\ req.circle

\* The ratio in force: 1:1 in circle mode, else the requested one.
RatioInForce == IF Circle THEN <<1, 1>> ELSE req.aspectRatio

\* The maxWidth in force.
WidthInForce ==
    IF req.maxWidth # 0 THEN req.maxWidth ELSE config.defaultMaxWidth

\* No write of the invocation was rejected by the file system.
WritesDone == res.error # WriteError

\* The sizing step got as far as choosing a branch.
Planned == Processed /\ res.branch # "none"

\* The request's aspectRatio is read (circle off) and is malformed.
Malformed ==
    /\ ~Circle /\ req.aspectRatio # NoRatio
    /\ (req.aspectRatio[1] = 0 \/ req.aspectRatio[2] = 0)

\* The calls of the sizing step: all of them, or all before the mask
\* post-step's (which ends with the composite).
SizingCalls ==
    IF Circle /\ res.calls # <<>> /\ res.calls[Len(res.calls)].call = "composite"
    THEN SubSeq(res.calls, 1,
                Len(res.calls) - (IF res.calls[Len(res.calls) - 2].call = "extract"
                                  THEN 3 ELSE 2))
    ELSE res.calls

\* C1: the sizing branch is the first that matches of (1) width and height
\* -> exact-fill resize to (width, height), (2) only one of them ->
\* aspect-preserving resize, enlargement allowed, (3) a ratio in force ->
\* centre crop then resize, (4) otherwise -> aspect-preserving resize bounded
\* by maxWidth; and that branch's calls are the only sizing calls made.
C1_BranchPrecedence ==
    Planned =>
        LET w == req.width
            h == req.height
            s == SizingCalls
        IN  IF w # 0 /\ h # 0
            THEN /\ res.branch = "exact"
                 /\ s = <<ResizeCall(w, h, "fill", FALSE)>>
            ELSE IF w # 0
            THEN /\ res.branch = "widthOnly"
                 /\ s = <<ResizeCall(w, NoDim, "inside", FALSE)>>
            ELSE IF h # 0
            THEN /\ res.branch = "heightOnly"
                 /\ s = <<ResizeCall(NoDim, h, "inside", FALSE)>>
            ELSE IF RatioInForce # NoRatio
            THEN /\ res.branch = "aspect"
                 /\ Len(s) = 2
                 /\ s[1].call = "extract"
                 /\ s[2].call = "resize" /\ s[2].fit = "fill"
            ELSE /\ res.branch = "maxWidth"
                 /\ s = <<ResizeCall(WidthInForce, NoDim, "inside", TRUE)>>

\* Width, height and an aspect ratio are all given, and the exact branch ran.
C1_Witness ==
    /\ Processed /\ ~Circle
    /\ req.width # 0 /\ req.height # 0 /\ req.aspectRatio # NoRatio
    /\ req.maxWidth # 0
    /\ res.status = "ok" /\ res.branch = "exact"

\* A request with a well-formed aspect ratio and no exact width or height,
\* circle mode off.
AspectRequest ==
    /\ Processed /\ ~Circle
    /\ req.width = 0 /\ req.height = 0
    /\ req.aspectRatio # NoRatio
    /\ req.aspectRatio[1] >= 1 /\ req.aspectRatio[2] >= 1

\* round(W*b/a) for the request's ratio a:b and the maxWidth in force.
TargetHeight ==
    (2 * WidthInForce * req.aspectRatio[2] + req.aspectRatio[1])
        \div (2 * req.aspectRatio[1])

\* The centre crop of an a:b request, from the source's size alone.
CropW ==
    LET a == RatioInForce[1]
        b == RatioInForce[2]
    IN  IF req.origW * b > a * req.origH
        THEN (2 * req.origH * a + b) \div (2 * b)
        ELSE req.origW

CropH ==
    LET a == RatioInForce[1]
        b == RatioInForce[2]
    IN  IF req.origW * b < a * req.origH
        THEN (2 * req.origW * b + a) \div (2 * a)
        ELSE req.origH

\* C2 as stated: every aspect-ratio request a:b with maxWidth W yields
\* width = W and height = round(W*b/a) within 1 px, for every source size.
C2_AsStated ==
    (AspectRequest /\ res.status = "ok") =>
        /\ res.width = WidthInForce
        /\ res.height - TargetHeight \in {-1, 0, 1}

\* C2 amended: when the centre crop is at least as large as the target
\* (cropW >= W and cropH >= round(W*b/a) >= 1) the output has width = W and
\* height = round(W*b/a) within 1 px; a smaller crop is never enlarged.
C2_AspectOutputSize ==
    AspectRequest =>
        /\ (CropW >= WidthInForce /\ CropH >= TargetHeight /\ TargetHeight >= 1
            /\ res.format \in Formats /\ WritesDone)
              => /\ res.status = "ok"
                 /\ res.width = WidthInForce
                 /\ res.height - TargetHeight \in {-1, 0, 1}
        /\ res.status = "ok" =>
              /\ res.width <= CropW
              /\ res.height <= CropH

\* 4000 x 2000, 16:9, maxWidth 1920 gives 1920 x 1080.
C2_Witness ==
    /\ AspectRequest
    /\ req.origW = 4000 /\ req.origH = 2000 /\ req.aspectRatio = <<16, 9>>
    /\ WidthInForce = 1920
    /\ res.status = "ok" /\ res.width = 1920 /\ res.height = 1080

\* C3 as stated: a request with both width w and height h yields exactly
\* (w, h), whatever else is set, circle included.
C3_AsStated ==
    (Processed /\ req.width # 0 /\ req.height # 0 /\ res.status = "ok") =>
        (res.width = req.width /\ res.height = req.height)

\* C3 amended: with circle off, a request with both width w and height h
\* yields exactly (w, h) whatever the source size, aspectRatio and maxWidth;
\* with circle on it yields the square of side min(w, h).
C3_ExactDimensions ==
    (Processed /\ req.width # 0 /\ req.height # 0) =>
        /\ (res.format \in Formats /\ ~Malformed /\ WritesDone) =>
              res.status = "ok"
        /\ res.status = "ok" =>
             IF Circle
             THEN /\ res.width = (IF req.width <= req.height
                                  THEN req.width ELSE req.height)
                  /\ res.height = res.width
             ELSE res.width = req.width /\ res.height = req.height

\* An exact request whose shape differs from the source's, enlarging one
\* axis and shrinking the other, with a ratio and a maxWidth also given.
C3_Witness ==
    /\ Processed /\ ~Circle
    /\ req.width > req.origW /\ req.height < req.origH
    /\ req.aspectRatio # NoRatio /\ req.maxWidth # 0
    /\ res.status = "ok"
    /\ res.width = req.width /\ res.height = req.height

\* C4: in the aspect-ratio branch the crop is cropW = round(origH*aw/ah),
\* cropH = origH when the source is wider than aw:ah, cropH =
\* round(origW*ah/aw), cropW = origW when it is taller, else the whole
\* source, centred at left = floor((origW-cropW)/2), top =
\* floor((origH-cropH)/2).
C4_CentreCrop ==
    (Planned /\ res.branch = "aspect") =>
        LET a == RatioInForce[1]
            b == RatioInForce[2]
            wider == req.origW * b > a * req.origH
            taller == req.origW * b < a * req.origH
            c == res.calls[1]
        IN  /\ c.call = "extract"
            /\ wider => /\ c.width = (2 * req.origH * a + b) \div (2 * b)
                        /\ c.height = req.origH
            /\ taller => /\ c.height = (2 * req.origW * b + a) \div (2 * a)
                         /\ c.width = req.origW
            /\ (~wider /\ ~taller) =>
                   (c.width = req.origW /\ c.height = req.origH)
            /\ c.left = (req.origW - c.width) \div 2
            /\ c.top = (req.origH - c.height) \div 2

\* 4000 x 2000 with 16:9: cropW = 3556, cropH = 2000, left = 222, top = 0.
C4_Witness ==
    /\ Planned /\ res.branch = "aspect"
    /\ req.origW = 4000 /\ req.origH = 2000 /\ req.aspectRatio = <<16, 9>>
    /\ res.calls[1] = ExtractCall(222, 0, 3556, 2000)

\* C5: with neither exact width/height nor a ratio in force, the output
\* keeps the source's aspect ratio (to the pixel), its width is
\* min(origW, maxWidth), it is never larger than the source, and an unset
\* maxWidth is the configured defaultMaxWidth.
C5_MaxWidthOnly ==
    (Processed /\ ~Circle /\ req.width = 0 /\ req.height = 0
        /\ req.aspectRatio = NoRatio) =>
        LET W == IF req.maxWidth = 0 THEN config.defaultMaxWidth
                 ELSE req.maxWidth
            d == res.height * req.origW - req.origH * res.width
        IN  /\ (res.format \in Formats /\ WritesDone) => res.status = "ok"
            /\ res.status = "ok" =>
                 /\ res.width = (IF req.origW <= W THEN req.origW ELSE W)
                 /\ res.width <= req.origW /\ res.height <= req.origH
                 /\ -req.origW < d /\ d < req.origW

\* maxWidth is unset and the configured default shrinks the source.
C5_Witness ==
    /\ Processed /\ ~Circle /\ req.width = 0 /\ req.height = 0
    /\ req.aspectRatio = NoRatio /\ req.maxWidth = 0
    /\ config.defaultMaxWidth < req.origW
    /\ res.status = "ok" /\ res.width = config.defaultMaxWidth

\* The composite of the circular mask is the last call and the only
\* composite.
MaskIsLast ==
    /\ res.calls # <<>>
    /\ \A i \in 1..Len(res.calls) :
          res.calls[i].call = "composite" <=> i = Len(res.calls)

\* C6 as stated: with circle = true the aspect-ratio branch runs with 1:1
\* whatever width, height, aspectRatio and maxWidth are, then the mask.
C6_AsStated ==
    Circle =>
        /\ res.branch = "aspect"
        /\ res.status = "ok" => MaskIsLast

\* C6 amended: with circle = true and neither width nor height given, the
\* aspect-ratio branch runs with 1:1 (a centred square crop of side
\* min(origW, origH), then the resize) whatever aspectRatio and maxWidth
\* are; with a width or a height given the exact-size branch runs instead;
\* either way the mask is applied only after the sizing step.
C6_CircleSizing ==
    Circle =>
        LET side == IF req.origW <= req.origH THEN req.origW ELSE req.origH
        IN  /\ res.status = "ok"
            /\ MaskIsLast
            /\ (req.width = 0 /\ req.height = 0) =>
                  /\ res.branch = "aspect"
                  /\ res.calls[1] =
                        ExtractCall((req.origW - side) \div 2,
                                    (req.origH - side) \div 2, side, side)
                  /\ res.calls[2] =
                        ResizeCall(WidthInForce, WidthInForce, "fill", TRUE)
            /\ (req.width # 0 \/ req.height # 0) =>
                  res.branch \in {"exact", "widthOnly", "heightOnly"}

\* Circle mode on a non-square source with another ratio requested.
C6_Witness ==
    /\ Circle /\ req.width = 0 /\ req.height = 0
    /\ req.aspectRatio = <<2, 1>> /\ req.origW > req.origH
    /\ res.status = "ok" /\ res.branch = "aspect"
    /\ res.calls[Len(res.calls)].call = "composite"

\* C7: with circle = true the result has format png and width = height,
\* whatever format, output path, sizing fields and source size.
C7_CirclePngSquare ==
    Circle =>
        /\ res.format = "png"
        /\ res.status = "ok"
        /\ res.width = res.height /\ res.width >= 1

\* Circle mode with a .jpg output path and an exact, non-square size on a
\* non-square source.
C7_Witness ==
    /\ Circle
    /\ req.targetPath = <<"photo", "jpg">>
    /\ req.width # 0 /\ req.height # 0 /\ req.width # req.height
    /\ req.origW # req.origH
    /\ res.status = "ok" /\ res.format = "png" /\ res.width = res.height

\* The output path has an extension: a '.' with a segment after it.
HasExtension == Len(req.targetPath) >= 2

\* The path's extension, lower-cased.
Extension ==
    LET e == req.targetPath[Len(req.targetPath)]
    IN  IF e = "PNG" THEN "png" ELSE IF e = "JPEG" THEN "jpeg" ELSE e

\* C8 in full: determineFormat returns the explicit format when one is given (jpg
\* as jpeg); else the format named by the output path's extension when that
\* is one of webp, jpg, jpeg, png, avif (jpg as jpeg); else, also for an
\* unknown extension or none, the configured default; and the result is
\* always one of webp, jpeg, png, avif.
C8_AsStated ==
    op = "determineFormat" =>
        /\ res.format \in {"webp", "jpeg", "png", "avif"}
        /\ res.format =
              (IF req.format # None
               THEN (IF req.format = "jpg" THEN "jpeg" ELSE req.format)
               ELSE IF HasExtension
                       /\ Extension \in {"webp", "jpg", "jpeg", "png", "avif"}
               THEN (IF Extension = "jpg" THEN "jpeg" ELSE Extension)
               ELSE req.defaultFormat)

\* C8, its clause for unknown extensions: for a path whose extension is
\* none of webp, jpg, jpeg, png, avif and no explicit format, determineFormat
\* returns the configured default.
C8_UnknownExtension ==
    (op = "determineFormat" /\ req.format = None /\ HasExtension
        /\ Extension \notin {"webp", "jpg", "jpeg", "png", "avif"}) =>
        res.format = req.defaultFormat

\* addWatermark got as far as placing a watermark wmW x wmH.
Placed == op = "addWatermark" /\ res.kind # "none"

\* The watermark is no larger than the image.
Fits == res.wmW <= res.width /\ res.wmH <= res.height

\* The request's position; 'center' when none is given.
Position == IF req.position = None THEN "center" ELSE req.position

\* C9: for every position preset, and custom with any x, y >= 0, and every
\* image at least as large as the watermark, the final (left, top) has
\* 0 <= left, 0 <= top, left + wmW <= imgW and top + wmH <= imgH.
C9_WatermarkInBounds ==
    (Placed /\ Fits) =>
        /\ 0 <= res.left /\ 0 <= res.top
        /\ res.left + res.wmW <= res.width
        /\ res.top + res.wmH <= res.height

\* A custom position beyond the right and bottom edges is pulled back so
\* that the watermark ends at the image's edges.
C9_Witness ==
    /\ Placed /\ Fits /\ res.status = "ok"
    /\ req.position = "custom"
    /\ req.x > res.width /\ req.y > res.height
    /\ res.wmW >= 1 /\ res.wmH >= 1
    /\ res.left > 0 /\ res.top > 0
    /\ res.left = res.width - res.wmW /\ res.top = res.height - res.wmH

\* The positions C10 names: a margin of 5% of the image's dimension from
\* each relevant edge, and the midpoint for 'center'.
NamedPosition ==
    /\ Position = "top-left" =>
          /\ res.left = res.width \div 20
          /\ res.top = res.height \div 20
    /\ Position = "bottom-right" =>
          /\ res.left = (20 * (res.width - res.wmW) - res.width) \div 20
          /\ res.top = (20 * (res.height - res.wmH) - res.height) \div 20
    /\ Position = "top-right" =>
          /\ res.left = (20 * (res.width - res.wmW) - res.width) \div 20
          /\ res.top = res.height \div 20
    /\ Position = "bottom-left" =>
          /\ res.left = res.width \div 20
          /\ res.top = (20 * (res.height - res.wmH) - res.height) \div 20
    /\ Position = "center" =>
          /\ res.left = (res.width - res.wmW) \div 2
          /\ res.top = (res.height - res.wmH) \div 2

\* C10 as stated: every watermark that fits inside the image is placed at
\* the named position.
C10_AsStated == (Placed /\ Fits) => NamedPosition

\* The watermark fits inside the image with the 5% margin beside it.
FitsWithMargin ==
    /\ 20 * res.wmW + res.width <= 20 * res.width
    /\ 20 * res.wmH + res.height <= 20 * res.height

\* C10 amended: every watermark that fits inside the image together with
\* the 5% margin (wmW + 0.05*imgW <= imgW, wmH + 0.05*imgH <= imgH) is
\* placed at the named corner position; 'center' is the midpoint for every
\* watermark that fits; a watermark that fits without the margin is kept
\* inside the image instead.
C10_CornerMargins ==
    /\ (Placed /\ FitsWithMargin) => NamedPosition
    /\ (Placed /\ Fits /\ Position = "center") => NamedPosition
    /\ (Placed /\ Fits) =>
          /\ res.left \in 0..(res.width - res.wmW)
          /\ res.top \in 0..(res.height - res.wmH)

\* bottom-right on 1000 x 1000 with a 100 x 100 watermark: (850, 850).
C10_Witness ==
    /\ Placed /\ res.status = "ok"
    /\ req.position = "bottom-right"
    /\ res.width = 1000 /\ res.height = 1000
    /\ res.wmW = 100 /\ res.wmH = 100
    /\ res.left = 850 /\ res.top = 850

\* An image watermark that was scaled and handed to the compositor.
ImagePlaced == Placed /\ res.kind = "image"

\* The long side the request asks for, as the rational n / d: size, else
\* sizePercent of min(imgW, imgH), else 20% of min(imgW, imgH).
LongSideN ==
    IF req.size # 0 THEN req.size * 100
    ELSE IF req.sizePercent # 0
    THEN Min(res.width, res.height) * req.sizePercent
    ELSE Min(res.width, res.height) * 20

\* The box whose long side is that size and whose short side keeps the
\* watermark file's aspect ratio.
BoxAsNamed ==
    LET ow == req.watermark[1]
        oh == req.watermark[2]
    IN  IF ow >= oh
        THEN /\ res.boxW = Round(LongSideN, 100)
             /\ res.boxH = Round(LongSideN * oh, 100 * ow)
        ELSE /\ res.boxH = Round(LongSideN, 100)
             /\ res.boxW = Round(LongSideN * ow, 100 * oh)

\* C11 as stated: the target box of an image watermark comes from size,
\* else sizePercent, else 20% of min(imgW, imgH), the short side keeps the
\* aspect ratio, and the composited watermark has the box's dimensions.
C11_AsStated ==
    ImagePlaced =>
        /\ BoxAsNamed
        /\ res.wmW = res.boxW /\ res.wmH = res.boxH

\* C11 amended: the target box is as named; the composited watermark is the
\* file scaled to fit inside the box and never enlarged: it exceeds neither
\* the box nor the file, it is the file itself when the file fits inside
\* the box, and otherwise one of its sides equals the box's.
C11_TargetBox ==
    ImagePlaced =>
        LET ow == req.watermark[1]
            oh == req.watermark[2]
        IN  /\ BoxAsNamed
            /\ res.wmW <= res.boxW /\ res.wmH <= res.boxH
            /\ res.wmW <= ow /\ res.wmH <= oh
            /\ (ow <= res.boxW /\ oh <= res.boxH) =>
                  (res.wmW = ow /\ res.wmH = oh)
            /\ (ow > res.boxW \/ oh > res.boxH) =>
                  (res.wmW = res.boxW \/ res.wmH = res.boxH)

\* size 10 and sizePercent 100 on a 100 x 100 image with a 40 x 20
\* watermark file: the box and the composited watermark are 10 x 5.
C11_Witness ==
    /\ ImagePlaced /\ res.status = "ok"
    /\ req.size = 10 /\ req.sizePercent = 100
    /\ req.watermark = <<40, 20>>
    /\ res.width = 100 /\ res.height = 100
    /\ res.boxW = 10 /\ res.boxH = 5
    /\ res.wmW = 10 /\ res.wmH = 5

\* A watermark request on an existing source image that carries neither a
\* text nor a watermark image path.
NoWatermarkGiven ==
    /\ op = "addWatermark"
    /\ req.image # MissingFile
    /\ req.textLength = 0
    /\ req.watermark = NoWatermarkPath

\* C12: addWatermark on an existing source image with neither text nor
\* watermarkImagePath fails with the error that one of them must be
\* provided, and nothing is written to the output path.
C12_MissingWatermarkSource ==
    NoWatermarkGiven =>
        /\ res.status = "error"
        /\ res.error = MissingWatermarkSource
        /\ written = <<>>

\* Such a request on a 100 x 100 image, with a position and an output path
\* that are in order.
C12_Witness ==
    /\ NoWatermarkGiven
    /\ req.image = <<100, 100>>
    /\ req.position = "bottom-right"
    /\ req.outputPath = <<"photo", "jpg">>
    /\ res.status = "error"
    /\ res.error = MissingWatermarkSource
    /\ written = <<>>

\* A filter request whose source image was found.
Filtered == op = "applyFilters" /\ res.error # MissingSource

\* The fixed order of the filters' tokens, and the place of a token in it.
TokenOrder ==
    <<"blur", "sharpen", "grayscale", "sepia", "brightness", "saturation",
      "contrast">>

TokenRank(name) == CHOOSE i \in 1..Len(TokenOrder) : TokenOrder[i] = name

\* The place of a call on the raster instance in the order blur, sharpen,
\* grayscale, sepia, brightness/saturation, contrast.
CallRank(name) ==
    CASE name = "blur" -> 1
      [] name = "sharpen" -> 2
      [] name = "greyscale" -> 3
      [] name = "composite" -> 4
      [] name = "modulate" -> 5
      [] name = "linear" -> 6

CallCount(name) ==
    Cardinality({i \in 1..Len(res.calls) : res.calls[i].call = name})

\* A filter was applied: its call was made on the instance.  Sepia makes a
\* greyscale call of its own before its brown layer; brightness and
\* saturation share the modulate call, each applied when its factor is
\* not 1.
FilterApplied(name) ==
    CASE name = "blur" -> CallCount("blur") > 0
      [] name = "sharpen" -> CallCount("sharpen") > 0
      [] name = "grayscale" -> CallCount("greyscale") > CallCount("composite")
      [] name = "sepia" -> CallCount("composite") > 0
      [] name = "brightness" ->
           \E i \in 1..Len(res.calls) :
              res.calls[i].call = "modulate" /\ res.calls[i].a # 100
      [] name = "saturation" ->
           \E i \in 1..Len(res.calls) :
              res.calls[i].call = "modulate" /\ res.calls[i].b # 100
      [] name = "contrast" -> CallCount("linear") > 0

\* The request's value for a filter is non-zero / true.
FilterRequested(name) ==
    CASE name = "blur" -> req.blur # 0
      [] name = "sharpen" -> req.sharpen # 0
      [] name = "grayscale" -> req.grayscale
      [] name = "sepia" -> req.sepia
      [] name = "brightness" -> req.brightness # 0
      [] name = "saturation" -> req.saturation # 0
      [] name = "contrast" -> req.contrast # 0

TokenNames == {res.appliedFilters[i].name : i \in 1..Len(res.appliedFilters)}

\* C13: applyFilters applies a filter only when its value is non-zero or
\* true; the calls are made in the order blur, sharpen, grayscale, sepia,
\* brightness/saturation, contrast whatever the order of the options; the
\* appliedFilters list is a subsequence of blur, sharpen, grayscale, sepia,
\* brightness, saturation, contrast with a token present if and only if the
\* filter was applied.
C13_FilterOrder ==
    Filtered =>
        /\ \A i \in 1..Len(TokenOrder) :
              FilterApplied(TokenOrder[i]) => FilterRequested(TokenOrder[i])
        /\ \A i, j \in 1..Len(res.calls) :
              i < j => CallRank(res.calls[i].call) <= CallRank(res.calls[j].call)
        /\ \A i, j \in 1..Len(res.appliedFilters) :
              i < j => TokenRank(res.appliedFilters[i].name)
                          < TokenRank(res.appliedFilters[j].name)
        /\ \A i \in 1..Len(TokenOrder) :
              TokenOrder[i] \in TokenNames <=> FilterApplied(TokenOrder[i])

\* All seven filters asked for, the options listed from saturation back to
\* blur: the seven tokens are reported from blur to contrast.
C13_Witness ==
    /\ Filtered /\ res.status = "ok"
    /\ req.optionOrder[1] = "saturation"
    /\ req.blur = 1 /\ req.sharpen = 50
    /\ Len(res.appliedFilters) = 7
    /\ \A i \in 1..7 : res.appliedFilters[i].name = TokenOrder[i]
    /\ res.appliedFilters[1].value = 3
    /\ Len(res.calls) = 7
    /\ written = <<Asset>>

\* The linear transform and the modulate factors the request gives rise to,
\* in hundredths (the intercept in 1/400ths).
LinearOfRequest == <<ContrastFactor(req.contrast), Intercept(req.contrast)>>

\* C14: the tonal transforms are the identity at 0.  With contrast = 0 the
\* linear transform is out = in (a = 1, b = 0) and is not applied at all;
\* with brightness = 0 the brightness factor of every modulate call is 1,
\* with saturation = 0 the saturation factor is 1, also when the other of
\* the two is non-zero.
C14_IdentityAtZero ==
    Filtered =>
        /\ req.contrast = 0 =>
              /\ LinearOfRequest = <<100, 0>>
              /\ CallCount("linear") = 0
        /\ \A i \in 1..Len(res.calls) :
              res.calls[i].call = "modulate" =>
                 /\ req.brightness = 0 => res.calls[i].a = 100
                 /\ req.saturation = 0 => res.calls[i].b = 100

\* brightness 0 with saturation 50 and contrast 0: one modulate call with
\* the factors 1 and 1.5, no linear call, and only the saturation token.
C14_Witness ==
    /\ Filtered /\ res.status = "ok"
    /\ req.brightness = 0 /\ req.saturation = 50 /\ req.contrast = 0
    /\ ~req.sepia /\ ~req.grayscale /\ req.blur = 0 /\ req.sharpen = 0
    /\ res.calls = <<FilterCall("modulate", 100, 150)>>
    /\ res.appliedFilters = <<Token("saturation", 50)>>

\* A crop request whose source image was found, and its rectangle after
\* flooring (the request counts in halves of a pixel).
Cropping == op = "cropImage" /\ req.image # MissingFile

FlooredX == req.x \div 2

FlooredY == req.y \div 2

FlooredWidth == req.width \div 2

FlooredHeight == req.height \div 2

TooWide == FlooredX + FlooredWidth > req.image[1]

TooHigh == FlooredY + FlooredHeight > req.image[2]

\* C15: cropImage rejects a rectangle with x + width > sourceWidth or
\* y + height > sourceHeight (after flooring) with an error naming the
\* offending bound, before the crop primitive is invoked and before
\* anything is written; a rectangle inside the source is accepted and
\* returned as cropArea.
C15_CropValidation ==
    Cropping =>
        /\ (TooWide \/ TooHigh) =>
              /\ res.status = "error"
              /\ res.error \in {ExceedsWidth, ExceedsHeight}
              /\ res.error = ExceedsWidth => TooWide
              /\ res.error = ExceedsHeight => TooHigh
              /\ res.calls = <<>>
              /\ written = <<>>
        /\ ~(TooWide \/ TooHigh) =>
              /\ res.error \notin {ExceedsWidth, ExceedsHeight}
              /\ res.calls = <<ExtractCall(FlooredX, FlooredY, FlooredWidth,
                                           FlooredHeight)>>
              /\ res.status = "ok" =>
                    /\ res.cropArea = [x |-> FlooredX, y |-> FlooredY,
                                       width |-> FlooredWidth,
                                       height |-> FlooredHeight]
                    /\ res.width = FlooredWidth /\ res.height = FlooredHeight
                    /\ written = <<Asset>>
              /\ res.format \in Formats => res.status = "ok"

\* x = 1.5 with width 1 and y = 0.5 with height 2.5 on a 2 x 2 source:
\* floored to 1 + 1 and 0 + 2 the rectangle is inside and accepted.
C15_AcceptedWitness ==
    /\ Cropping /\ res.status = "ok"
    /\ req.image = <<2, 2>>
    /\ req.x = 3 /\ req.width = 2 /\ req.y = 1 /\ req.height = 5
    /\ res.cropArea = [x |-> 1, y |-> 0, width |-> 1, height |-> 2]
    /\ written = <<Asset>>

\* A rectangle beyond the right edge only (x = 1, width = 2 on a 2 x 2
\* source): the error names the width, nothing is extracted or written.
C15_Witness ==
    /\ Cropping /\ res.status = "error"
    /\ req.image = <<2, 2>>
    /\ req.x = 2 /\ req.width = 4 /\ req.y = 0 /\ req.height = 2
    /\ res.error = ExceedsWidth
    /\ res.calls = <<>> /\ written = <<>>

\* A placeholder request with transparent = true that produced a file.
TransparentPlaceholder ==
    op = "createPlaceholder" /\ req.transparent /\ res.status = "ok"

\* C16: a placeholder request with transparent = true always yields format
\* png, whatever format parameter or output-path extension is given, and
\* its canvas ignores backgroundColor and textColor.
C16_TransparentPng ==
    TransparentPlaceholder =>
        /\ res.format = "png"
        /\ res.canvas.fill \notin ColorOptions \ {None}
        /\ res.canvas.textFill \notin ColorOptions \ {None}

\* A favicon request and the sizes it asks for (16, 32, 48, 180, 192, 512
\* when it names none), in halves of a pixel.
Favicons == op = "createFavicon"

RequestedSizes ==
    IF req.sizes = <<0>> THEN <<32, 64, 96, 360, 384, 1024>> ELSE req.sizes

WholeSizes == \A i \in 1..Len(RequestedSizes) : RequestedSizes[i] % 2 = 0

HasSize(px) == \E i \in 1..Len(RequestedSizes) : RequestedSizes[i] = 2 * px

LinksOf(rel) == {i \in 1..Len(res.htmlLinks) : res.htmlLinks[i].rel = rel}

\* One square size x size png per requested size, then favicon.png at
\* 32 x 32; 180 alone is tagged apple-touch-icon; the manifest link is
\* there exactly when 192 and 512 are both asked for.
FaviconSet ==
    /\ res.status = "ok"
    /\ Len(res.files) = Len(RequestedSizes)
    /\ \A i \in 1..Len(RequestedSizes) :
          /\ res.files[i].format = "png"
          /\ res.images[i] = Image(RequestedSizes[i] \div 2,
                                   RequestedSizes[i] \div 2)
          /\ written[i] = res.files[i].path
          /\ res.htmlLinks[i + 1].href = res.files[i].path
          /\ res.htmlLinks[i + 1].rel = "apple-touch-icon"
                <=> RequestedSizes[i] = 360
    /\ Len(written) = Len(RequestedSizes) + 1
    /\ written[Len(written)] = "favicon.png"
    /\ res.favicon = Image(32, 32)
    /\ \A i \in LinksOf("apple-touch-icon") :
          i - 1 \in 1..Len(RequestedSizes) /\ RequestedSizes[i - 1] = 360
    /\ LinksOf("manifest") # {} <=> (HasSize(192) /\ HasSize(512))

\* C17 as stated: the favicon set is produced for any source size and any
\* list of sizes.
C17_AsStated == Favicons => FaviconSet

\* C17 amended: for any source size and any list of whole-pixel sizes the
\* favicon set is produced; a list with a size that is not a whole number
\* of pixels fails, leaving the files of the sizes before it and no
\* favicon.png.
C17_FaviconSet ==
    /\ (Favicons /\ WholeSizes) => FaviconSet
    /\ (Favicons /\ ~WholeSizes) =>
          /\ res.status = "error"
          /\ Len(written) < Len(RequestedSizes)
          /\ \A i \in 1..Len(written) :
                /\ RequestedSizes[i] % 2 = 0
                /\ written[i] # "favicon.png"

\* The default sizes on a 1000 x 800 source: six files, favicon.png, the
\* fourth link tagged apple-touch-icon, and the manifest link at the end.
C17_Witness ==
    /\ Favicons /\ res.status = "ok"
    /\ req.origW = 1000 /\ req.origH = 800
    /\ req.sizes = <<0>>
    /\ Len(res.files) = 6 /\ Len(written) = 7
    /\ res.images[6] = Image(512, 512)
    /\ res.htmlLinks[5].rel = "apple-touch-icon"
    /\ res.htmlLinks[8].rel = "manifest"

\* sizes 192 and 180 without 512: no manifest link.
C17_NoManifestWitness ==
    /\ Favicons /\ res.status = "ok"
    /\ req.sizes = <<384, 360>>
    /\ LinksOf("manifest") = {}
    /\ LinksOf("apple-touch-icon") = {3}

\* A colour extraction, the buckets the quantizer produced, and the
\* buckets in the priority order with their names and palette fields.
Extracting == op = "extractColors"

BucketOrder ==
    <<"Vibrant", "Muted", "DarkVibrant", "LightVibrant", "DarkMuted",
      "LightMuted">>

BucketNames ==
    <<"Vibrant", "Muted", "Dark Vibrant", "Light Vibrant", "Dark Muted",
      "Light Muted">>

BucketFields ==
    <<"vibrant", "muted", "darkVibrant", "lightVibrant", "darkMuted",
      "lightMuted">>

Produced == {i \in 1..6 : req.quantized[BucketOrder[i]] # <<>>}

\* A channel in halves, clamped to 0..255 and rounded to the nearest
\* integer.
Channel(v) == IF v <= 0 THEN 0 ELSE IF v >= 510 THEN 255 ELSE (v + 1) \div 2

RgbOfBucket(i) ==
    [c \in 1..3 |-> Channel(req.quantized[BucketOrder[i]][c])]

\* C18: extractColors returns as dominant the first bucket the quantizer
\* produced in the order vibrant, muted, darkVibrant, lightVibrant,
\* darkMuted, lightMuted, for every subset of produced buckets; with no
\* bucket it fails with the could-not-extract-colors error and no result.
C18_DominantPriority ==
    Extracting =>
        /\ Produced = {} =>
              /\ res.status = "error"
              /\ res.error = NoColorsExtracted
              /\ res.allColors = <<>> /\ res.dominant.rgbArray = <<>>
        /\ Produced # {} =>
              /\ res.status = "ok"
              /\ \E i \in Produced :
                    /\ \A j \in Produced : i <= j
                    /\ res.dominant.rgbArray = RgbOfBucket(i)

\* Only darkVibrant and lightMuted produced, with different colours: the
\* dominant colour is darkVibrant's.
C18_Witness ==
    /\ Extracting /\ res.status = "ok"
    /\ Produced = {3, 6}
    /\ req.quantized["DarkVibrant"] = <<-1, 255, 511>>
    /\ req.quantized["LightMuted"] = <<40, 40, 41>>
    /\ res.dominant.rgbArray = <<0, 128, 255>>
    /\ res.dominant.hex = "#0080FF"

\* The quantizer produced nothing: the error, and no result.
C18_EmptyWitness ==
    /\ Extracting /\ Produced = {}
    /\ res.status = "error" /\ res.error = NoColorsExtracted

\* The places in allColors, and the place of a bucket's name in it.
Listed == 1..Len(res.allColors)

ListedAt(i) == {k \in Listed : res.allColors[k].name = BucketNames[i]}

\* C19: in every result of extractColors allColors holds exactly the
\* produced buckets, each once, in the order Vibrant, Muted, Dark Vibrant,
\* Light Vibrant, Dark Muted, Light Muted; a palette field is set if and
\* only if its bucket is in allColors, with the same colour; the dominant
\* colour equals the first entry of allColors.
C19_AllColors ==
    (Extracting /\ res.status = "ok") =>
        /\ Len(res.allColors) = Cardinality(Produced)
        /\ \A i \in 1..6 :
              /\ Cardinality(ListedAt(i)) = IF i \in Produced THEN 1 ELSE 0
              /\ res.palette[BucketFields[i]] # NoColor <=> ListedAt(i) # {}
              /\ \A k \in ListedAt(i) :
                    /\ res.allColors[k].color = res.palette[BucketFields[i]]
                    /\ res.allColors[k].color.rgbArray = RgbOfBucket(i)
        /\ \A i, j \in 1..6 : \A k \in ListedAt(i), l \in ListedAt(j) :
              i < j => k < l
        /\ res.allColors # <<>>
        /\ res.dominant = res.allColors[1].color

\* Light Muted, Muted and Dark Vibrant produced: allColors lists Muted,
\* Dark Vibrant, Light Muted, and the dominant colour is Muted's.
C19_Witness ==
    /\ Extracting /\ res.status = "ok"
    /\ Produced = {2, 3, 6}
    /\ req.quantized["Muted"] = <<40, 40, 41>>
    /\ req.quantized["DarkVibrant"] = <<-1, 255, 511>>
    /\ Len(res.allColors) = 3
    /\ res.allColors[1].name = "Muted"
    /\ res.allColors[2].name = "Dark Vibrant"
    /\ res.allColors[3].name = "Light Muted"
    /\ res.palette["vibrant"] = NoColor
    /\ res.palette["darkVibrant"].hex = "#0080FF"
    /\ res.dominant.rgb = "rgb(20, 20, 21)"

\* A call of processAndSaveImage, and the files it has written.
Saving == op = "processAndSaveImage"

Wrote(file) == \E i \in 1..Len(written) : written[i] = file

\* C20: in processAndSaveImage the sidecar <outputPath>.json is written if
\* and only if saveMetadata is enabled, and only after the primary asset
\* has been written; when the sidecar write fails the primary asset stays
\* in place and the failure is reported to the caller as an error.
C20_SidecarAfterAsset ==
    Saving =>
        /\ Wrote(Sidecar) => (config.saveMetadata /\ written = <<Asset, Sidecar>>)
        /\ ~config.saveMetadata => written \in {<<>>, <<Asset>>}
        /\ (Wrote(Asset) /\ req.io = "ok") =>
              /\ Wrote(Sidecar) <=> config.saveMetadata
              /\ res.status = "ok"
        /\ (Wrote(Asset) /\ req.io = "sidecarFails" /\ config.saveMetadata) =>
              /\ written = <<Asset>>
              /\ res.status = "error" /\ res.error = WriteError
        /\ res.status = "ok" =>
              written = IF config.saveMetadata THEN <<Asset, Sidecar>>
                        ELSE <<Asset>>

\* The sidecar write fails after the 1920 x 1080 asset was written: the
\* asset stays and the call fails.
C20_Witness ==
    /\ Saving /\ config.saveMetadata
    /\ req.io = "sidecarFails"
    /\ req.origW = 4000 /\ req.aspectRatio = <<16, 9>>
    /\ req.width = 0 /\ req.height = 0
    /\ written = <<Asset>>
    /\ res.status = "error" /\ res.error = WriteError

\* Metadata persistence off: the asset alone is written.
C20_NoSidecarWitness ==
    /\ Saving /\ ~config.saveMetadata
    /\ res.status = "ok"
    /\ written = <<Asset>>

\* The operations that write one output file.
SingleOutput ==
    op \in {"processLocalImage", "processAndSaveImage", "cropImage",
            "addWatermark", "applyFilters", "rotateImage"}

\* The stages before the write, and the errors they fail with.
EarlyErrors ==
    {MissingSource, ParseError, InvalidResize, ExceedsWidth, ExceedsHeight,
     MissingWatermarkSource, MissingWatermark, UnsupportedFormat,
     PipelineError}

\* C21: in each single-output operation a failure of a stage before the
\* write (missing source, malformed aspect ratio, invalid crop rectangle,
\* missing watermark source, unsupported format, encode failure) aborts the
\* request: the operation returns an error and the output path is neither
\* created nor modified; a file is written only by an operation all of
\* whose earlier stages succeeded.
C21_FailureAborts ==
    SingleOutput =>
        /\ res.error \in EarlyErrors =>
              (res.status = "error" /\ written = <<>>)
        /\ written # <<>> => res.error \notin EarlyErrors
        /\ res.status = "error" => res.error \in EarlyErrors \cup {WriteError}
        /\ (op \in {"processLocalImage", "processAndSaveImage"}
            /\ res.error = ParseError) => res.calls = <<>>
        /\ (op \in {"cropImage", "applyFilters", "rotateImage"}
            /\ res.error \in {MissingSource, ExceedsWidth, ExceedsHeight}) =>
              res.calls = <<>>

\* A rotation by 450 degrees of an existing image to a path whose format
\* cannot be encoded: the error, and no file.
C21_Witness ==
    /\ op = "rotateImage"
    /\ req.image = <<40, 20>> /\ req.angle = 450
    /\ res.status = "error" /\ res.error = UnsupportedFormat
    /\ res.calls = <<RotateCall(90)>>
    /\ written = <<>>

\* A malformed aspect ratio in processAndSaveImage: no sizing call is made
\* and nothing is written.
C21_ParseWitness ==
    /\ op = "processAndSaveImage"
    /\ res.status = "error" /\ res.error = ParseError
    /\ res.calls = <<>> /\ written = <<>>

\* C30: for every source size and every aspect ratio parseAspectRatio
\* accepts (1:1 of circle mode included) the centre-crop rectangle handed
\* to extract is a valid rectangle inside the source: cropW >= 1,
\* cropH >= 1, left >= 0, top >= 0, left + cropW <= origW and
\* top + cropH <= origH.
C30_CropInsideSource ==
    (Planned /\ res.branch = "aspect") =>
        LET c == res.calls[1]
        IN  /\ c.call = "extract"
            /\ c.width >= 1 /\ c.height >= 1
            /\ c.left >= 0 /\ c.top >= 0
            /\ c.left + c.width <= req.origW
            /\ c.top + c.height <= req.origH

\* An optimisation called without outputPath that wrote its file.
OptimizedInPlace ==
    op = "optimizeImage" /\ req.outputPath = <<>> /\ res.status = "ok"

\* C25: image_optimize called without outputPath overwrites the original
\* file: for every source format and alpha setting the file written is the
\* input path itself and no other file is created.
C25_OverwritesOriginal == OptimizedInPlace => written = <<req.imagePath>>

\* Every API call of the response went to provider p.
OnlyCalls(p) == \A i \in 1..Len(res.calls) : res.calls[i] = p

\* The primary provider of the request: the requested one, or for auto the
\* configured default (Pexels when the default is auto too).
Primary == ResolveProvider(req.manager, req.provider)

Alternative == IF Primary = Pexels THEN Pixabay ELSE Pexels

\* C23: a search with an explicit provider only ever calls that provider,
\* whatever the API keys, the default provider and the failures, and never
\* returns a result of the other provider.
C23_ExplicitProviderOnly ==
    (op = "searchWithFallback" /\ req.provider \in {Pexels, Pixabay})
        => /\ OnlyCalls(req.provider)
           /\ res.status = "ok" => res.provider = req.provider

\* C24: a search with provider auto whose primary provider (Pexels or
\* Pixabay) is unavailable or fails while the alternative is available calls
\* the alternative and returns its result with fallbackUsed = TRUE, and
\* fallbackUsed is FALSE exactly when the primary's own result is returned.
C24_AutoFallback ==
    (op = "searchWithFallback" /\ req.provider = Auto
        /\ Primary \in {Pexels, Pixabay})
        => /\ Len(res.calls) > 0 /\ Available(req.manager, Primary)
                => res.calls[1] = Primary
           /\ ((~Available(req.manager, Primary) \/ Primary \in req.failing)
                 /\ Available(req.manager, Alternative))
                => /\ \E i \in 1..Len(res.calls) : res.calls[i] = Alternative
                   /\ Alternative \notin req.failing
                        => /\ res.status = "ok"
                           /\ res.provider = Alternative
                           /\ res.fallbackUsed
           /\ res.status = "ok"
                => (~res.fallbackUsed <=> res.provider = Primary)

C29_FailedWitness ==
    /\ op = "getPhotoWithFallback"
    /\ req.provider = Auto
    /\ Primary \in req.failing
    /\ Available(req.manager, Alternative)
    /\ res.error = FallbackNotPossible
    /\ res.calls = <<Primary>>

\* C28: OpenAIProvider.search sends a further request only after an attempt
\* that failed with a retryable status (500, 502, 503, 504 or 429); after a
\* response with any other error status it fails without another request.
C28_RetryOnlyRetryable ==
    op = "openaiSearch"
        => \A k \in 2..res.requests :
              /\ req.fetches[k - 1].kind = "response"
              /\ req.fetches[k - 1].status \in RetryableStatuses

\* Connection n carries a regular request.
IsRequest(n) == n <= Len(connections) /\ connections[n].kind = "request"

Answered(n) == IsRequest(n) /\ Len(connections[n].bodies) = 1

\* C26: every regular request eventually has exactly one HTTP response
\* written to it, the reply passed to send() or the timeout error, also
\* when further requests arrive before it has been answered.
C26_EveryRequestAnswered ==
    \A n \in 1..MaxRequests : IsRequest(n) ~> Answered(n)

\* C27: the body written to a request's response is the reply to that same
\* request or the timeout error of that request, carrying its id.
C27_NoCrossedReplies ==
    \A n \in 1..Len(connections) :
        IsRequest(n)
            => \A k \in 1..Len(connections[n].bodies) :
                  /\ connections[n].bodies[k].of = n
                  /\ connections[n].bodies[k].id = connections[n].id

\* What call i returns and writes when it runs alone.
Alone(i) ==
    processLocalImage(config, invocations[i].args.src, invocations[i].args.r)

C22_FailedWitness ==
    /\ invocations[1].pc = "done" /\ invocations[2].pc = "done"
    /\ invocations[1].returned.status = "error"
    /\ invocations[2].returned.status = "ok"
    /\ fileSystem[invocations[1].args.r.targetPath] = NoFile

====
